---- MODULE Spec2Model ----
(***************************************************************************)
(* Verification model of anp-ts: the DID-WBA Verifier                      *)
(* (src/anp_auth/verifier.ts), the secp256k1 primitives (src/core/crypto), *)
(* the JWT Bearer path (src/core/jwt.ts), the AP2 cart and payment mandate *)
(* builders and verifiers (src/anp_ap2, src/ap2), the canonical hashes,    *)
(* the PEM export and import of secp256k1 keys, and the Authenticator's    *)
(* header cache (anp_auth/authenticator.ts).                               *)
(*                                                                         *)
(* Conventions.  Time is in milliseconds.  A JSON value is a record        *)
(* [t, s, m]: t is "str", "num", "bool", "obj" or "arr"; s is the lexical  *)
(* form of an atom; m is the member sequence of an object in insertion     *)
(* order, or the elements of an array under the names "0", "1", ...        *)
(* Cryptography is ideal: a digest is collision free and a signature       *)
(* verifies exactly under the key that made it over the digest it signed.  *)
(***************************************************************************)
EXTENDS Integers, Sequences, FiniteSets, TLC

VARIABLES
  now,          \* Date.now(), ms
  storeOn,      \* VerifierOptions.nonceStore is configured
  nonceStore,   \* the injected nonce store: key -> expiry time
  runs,         \* the verifyDidWbaHeader calls in flight, one record per call
  cache,        \* the Authenticator's header cache: cacheKey -> [value, expiresAt]
  uuids,        \* number of UUIDs drawn by the Authenticator
  call,         \* the last sequential call and what it returned
  cart,         \* the cart mandate as built, carried and verified
  payment,      \* the payment mandate as built, carried and verified
  signers,      \* the signRequest calls in flight, one record per caller
  issued,       \* the headers returned by signRequest, in order of return
  didCache,     \* the client Verifier's DID document cache: did -> document
  requests,     \* the rateLimit middleware's map: key -> timestamps let through
  admitted      \* the requests the rateLimit middleware has decided, in order

vars == <<now, storeOn, nonceStore, runs, cache, uuids, call, cart, payment, signers, issued, didCache, requests, admitted>>

---------------------------------------------------------------------------
(* Bounds *)

MaxEpoch == 2     \* the clock reaches MaxEpoch * 300 s

(* Program constants *)

TIMESTAMP_MAX_SKEW_MS == 300000
NONCE_TTL_MS == 300000

\* the instants at which the clock is read, and the instants a timestamp can name
Times == { k * TIMESTAMP_MAX_SKEW_MS : k \in 0..MaxEpoch }
Instants == Times \cup { t + 1000 : t \in Times } \cup { t - 1000 : t \in Times \ {0} }

Abs(x) == IF x < 0 THEN -x ELSE x

---------------------------------------------------------------------------
(* JSON values and RFC 8785 canonicalisation (the `canonicalize` package) *)

JStr(s) == [t |-> "str", s |-> s, m |-> <<>>]
JNum(s) == [t |-> "num", s |-> s, m |-> <<>>]
JBool(b) == [t |-> "bool", s |-> IF b THEN "true" ELSE "false", m |-> <<>>]
JObj(members) == [t |-> "obj", s |-> "", m |-> members]
JArr(elements) == [t |-> "arr", s |-> "", m |-> [i \in 1..Len(elements) |-> [k |-> ToString(i - 1), v |-> elements[i]]]]
JUndefined == [t |-> "undefined", s |-> "", m |-> <<>>]
JNull == [t |-> "null", s |-> "null", m |-> <<>>]
Mem(k, v) == [k |-> k, v |-> v]

\* every member name of the model, in UTF-16 code-unit order
AllKeysSorted ==
  << "amount", "body", "channel", "currency", "details", "did", "displayItems",
     "id", "label", "merchant_agent", "method", "method_data", "method_name", "nonce",
     "note", "out_trade_no", "payment_details_id", "payment_details_total",
     "payment_mandate_id", "payment_request", "payment_response",
     "quantity", "refund_period", "request_id", "service",
     "settlement_total", "supported_methods", "timestamp", "total", "url",
     "user_signature_required", "value" >>

MemberKeys(m) == { m[i].k : i \in 1..Len(m) }
HasMember(m, k) == k \in MemberKeys(m)
Member(m, k) == m[CHOOSE i \in 1..Len(m) : m[i].k = k].v
SortedKeysOf(m) == SelectSeq(AllKeysSorted, LAMBDA k : HasMember(m, k))

RECURSIVE canonicalize(_), CanonMembers(_, _), CanonElements(_)
canonicalize(v) ==
  CASE v.t = "str" -> "\"" \o v.s \o "\""
    [] v.t = "obj" -> "{" \o CanonMembers(v.m, SortedKeysOf(v.m)) \o "}"
    [] v.t = "arr" -> "[" \o CanonElements(v.m) \o "]"
    [] OTHER -> v.s
CanonElements(m) ==
  IF m = <<>> THEN ""
  ELSE canonicalize(Head(m).v) \o (IF Len(m) > 1 THEN "," ELSE "") \o CanonElements(Tail(m))
CanonMembers(m, ks) ==
  IF ks = <<>> THEN ""
  ELSE "\"" \o Head(ks) \o "\":" \o canonicalize(Member(m, Head(ks)))
       \o (IF Len(ks) > 1 THEN "," ELSE "") \o CanonMembers(m, Tail(ks))

\* JSON.parse(canonicalize(v)): the same value, members in sorted order
RECURSIVE SortedValue(_)
SortedValue(v) ==
  CASE v.t = "obj" ->
         JObj([i \in 1..Len(SortedKeysOf(v.m)) |->
                 Mem(SortedKeysOf(v.m)[i], SortedValue(Member(v.m, SortedKeysOf(v.m)[i])))])
    [] v.t = "arr" -> [v EXCEPT !.m = [i \in 1..Len(v.m) |-> Mem(v.m[i].k, SortedValue(v.m[i].v))]]
    [] OTHER -> v

\* the value at a path of member names, and the value with that path replaced
RECURSIVE GetPath(_, _), SetPath(_, _, _)
GetPath(v, path) ==
  IF path = <<>> THEN v
  ELSE IF HasMember(v.m, Head(path)) THEN GetPath(Member(v.m, Head(path)), Tail(path))
  ELSE JUndefined
SetPath(v, path, new) ==
  IF path = <<>> THEN new
  ELSE [v EXCEPT !.m = [i \in 1..Len(v.m) |->
                          IF v.m[i].k = Head(path)
                          THEN Mem(v.m[i].k, SetPath(v.m[i].v, Tail(path), new))
                          ELSE v.m[i]]]
\* delete obj[k], and obj[k] = value on an object without k
RemoveMember(v, k) == [v EXCEPT !.m = SelectSeq(v.m, LAMBDA e : e.k # k)]
AddMember(v, k, value) == [v EXCEPT !.m = Append(v.m, Mem(k, value))]

---------------------------------------------------------------------------
(* core/utils.ts, core/crypto.ts: base64url, SHA-256, secp256k1 *)

Keys == {"K1", "K2"}

\* bytes are kept symbolic: [kind |-> "sig", ...] is a 64-byte compact
\* signature, "short" a byte string of another length
NoBytes == [kind |-> "none", len |-> 0, key |-> "", msg |-> "", highS |-> FALSE]
SigBytes(key, digest) == [kind |-> "sig", len |-> 64, key |-> key, msg |-> digest, highS |-> FALSE]
HighSBytes(key, digest) == [kind |-> "sig", len |-> 64, key |-> key, msg |-> digest, highS |-> TRUE]
ShortBytes == [kind |-> "short", len |-> 5, key |-> "", msg |-> "", highS |-> FALSE]

\* a base64url text: "b64" decodes to .bytes, "bad" has a character outside
\* the alphabet, "empty" is the empty string
B64(bytes) == [kind |-> "b64", bytes |-> bytes]
BadB64 == [kind |-> "bad", bytes |-> NoBytes]
EmptyB64 == [kind |-> "empty", bytes |-> NoBytes]

base64urlEncode(bytes) == B64(bytes)

\* atob throws InvalidCharacterError on text outside the alphabet
base64urlDecode(text) ==
  IF text.kind = "bad" THEN [threw |-> TRUE, bytes |-> NoBytes]
  ELSE [threw |-> FALSE, bytes |-> text.bytes]

sha256(data) == "sha256(" \o data \o ")"

\* JWKs: a well-formed public key of K, and malformed ones
Jwk(K) == [kty |-> "EC", crv |-> "secp256k1", x |-> K \o ".x", y |-> K \o ".y"]
JwkNoX(K) == [kty |-> "EC", crv |-> "secp256k1", y |-> K \o ".y"]
JwkNoY(K) == [kty |-> "EC", crv |-> "secp256k1", x |-> K \o ".x"]
JwkShortX(K) == [kty |-> "EC", crv |-> "secp256k1", x |-> "short", y |-> K \o ".y"]
PrivateJwk(K) == [kty |-> "EC", crv |-> "secp256k1", x |-> K \o ".x", y |-> K \o ".y", d |-> K]

JwkField(jwk, f) == IF f \in DOMAIN jwk THEN jwk[f] ELSE ""

signSecp256k1(privateKey, data) ==
  IF JwkField(privateKey, "d") = "" THEN [threw |-> TRUE, bytes |-> NoBytes]
  ELSE [threw |-> FALSE, bytes |-> SigBytes(privateKey.d, sha256(data))]

jwkToRawSecp256k1PublicKey(jwk) ==
  IF JwkField(jwk, "x") = "" \/ JwkField(jwk, "y") = ""
  THEN [threw |-> TRUE, x |-> "", y |-> ""]
  ELSE [threw |-> FALSE, x |-> jwk.x, y |-> jwk.y]

\* secp256k1.verify of @noble/curves: false for a signature that is not 64
\* bytes, has a high s, or for a public key that is not a curve point
NobleVerify(signature, digest, publicKey) ==
  /\ signature.kind = "sig"
  /\ signature.len = 64
  /\ ~signature.highS
  /\ \E K \in Keys : /\ publicKey.x = K \o ".x"
                     /\ publicKey.y = K \o ".y"
                     /\ signature.key = K
  /\ signature.msg = digest

verifySecp256k1Signature(publicJwk, payload, signatureB64Url) ==
  LET digest == sha256(payload)
      signature == base64urlDecode(signatureB64Url)
      publicKey == jwkToRawSecp256k1PublicKey(publicJwk)
  IN  IF signature.threw \/ publicKey.threw
      THEN [threw |-> TRUE, ok |-> FALSE]
      ELSE [threw |-> FALSE, ok |-> NobleVerify(signature.bytes, digest, publicKey)]

---------------------------------------------------------------------------
(* Timestamps: Date.prototype.toISOString and Date.parse *)

toISOString(t) == "T" \o ToString(t) \o "Z"

\* Date.parse: the instant of a well-formed timestamp, NaN for anything else
DateParse(ts) ==
  IF \E t \in Instants : toISOString(t) = ts
  THEN [isNaN |-> FALSE, ms |-> CHOOSE t \in Instants : toISOString(t) = ts]
  ELSE [isNaN |-> TRUE, ms |-> 0]

parseRfc3339(ts) ==
  LET t == DateParse(ts)
  IN  IF t.isNaN THEN [isNull |-> TRUE, ms |-> 0] ELSE [isNull |-> FALSE, ms |-> t.ms]

\* variant: the boundary excluded
verifyTimestamp_Exclusive(ts, dateNow) ==
  LET t == parseRfc3339(ts)
  IN  IF t.isNull THEN FALSE
      ELSE Abs(dateNow - t.ms) < TIMESTAMP_MAX_SKEW_MS

verifyTimestamp(ts, dateNow) ==
  LET t == parseRfc3339(ts)
  IN  IF t.isNull THEN FALSE
      ELSE Abs(dateNow - t.ms) <= TIMESTAMP_MAX_SKEW_MS

---------------------------------------------------------------------------
(* Authorization headers.  A header is its leading tokens (head), the      *)
(* comma-separated parts that follow, and, for Bearer, the token.  A part  *)
(* [k, v, eq] stands for the text k="v"; eq is FALSE for a part without    *)
(* "=".  A verification-method value is its "#"-separated segments.        *)

\* an HS256 token: the secret it was signed with and the claims of its payload
Jwt(secret, subKind, sub, hasExp, exp) ==
  [kind |-> "jwt", secret |-> secret, subKind |-> subKind, sub |-> sub, hasExp |-> hasExp, exp |-> exp]
MalformedToken == [kind |-> "malformed", secret |-> "", subKind |-> "absent", sub |-> "", hasExp |-> FALSE, exp |-> 0]
NoToken == [kind |-> "none", secret |-> "", subKind |-> "absent", sub |-> "", hasExp |-> FALSE, exp |-> 0]
Part(k, v) == [k |-> k, v |-> v, eq |-> TRUE]

HeaderFields == {"did", "nonce", "timestamp", "verification_method", "signature"}

StartsWith(s, p) == Len(s) >= Len(p) /\ SubSeq(s, 1, Len(p)) = p

RECURSIVE TrimStart(_)
TrimStart(s) == IF s # <<>> /\ Head(s) = " " THEN TrimStart(Tail(s)) ELSE s

DidWbaHeaderSchema(out) ==
  /\ DOMAIN out = HeaderFields
  /\ out["did"] # ""
  /\ out["nonce"] # ""
  /\ out["timestamp"] # ""
  /\ out["verification_method"] # <<>>
  /\ out["signature"].kind # "empty"

parseAuthHeader(header) ==
  LET trimmed == TrimStart(header.head)
      parts == header.parts
      keys == { parts[i].k : i \in { j \in 1..Len(parts) : parts[j].eq } }
      last(k) == CHOOSE i \in 1..Len(parts) :
                   /\ parts[i].eq /\ parts[i].k = k
                   /\ \A j \in (i+1)..Len(parts) : ~(parts[j].eq /\ parts[j].k = k)
      out == [k \in keys |-> parts[last(k)].v]
  IN  IF ~StartsWith(trimmed, <<"DIDWba", " ">>) THEN [ok |-> FALSE, out |-> <<>>]
      ELSE IF DidWbaHeaderSchema(out) THEN [ok |-> TRUE, out |-> out]
      ELSE [ok |-> FALSE, out |-> <<>>]

---------------------------------------------------------------------------
(* core/did.ts: DID documents and their resolution *)

WbaDids == {"did:wba:a", "did:wba:a:b"}

\* the first 32 base64url characters of JSON.stringify({kty, crv, x, y}) encode
\* its first 24 bytes, {"kty":"EC","crv":"secp2 for a secp256k1 key: neither
\* x nor y reaches the fingerprint
createDidFromPublicJwk(jwk) == "did:wba:fp(" \o jwk.kty \o "," \o jwk.crv \o ")"

createDidDocument(publicKeyJwk) ==
  LET did == createDidFromPublicJwk(publicKeyJwk)
  IN  [id |-> did,
       verificationMethod |->
         << [id |-> <<did, "keys-1">>, type |-> "EcdsaSecp256k1VerificationKey2019",
             publicKeyJwk |-> publicKeyJwk] >>]

VmTypes == {"EcdsaSecp256k1VerificationKey2019", "EcdsaSecp256k1VerificationKey2020"}

Vm(id, type, jwk) == [id |-> id, type |-> type, publicKeyJwk |-> jwk]
Doc(id, vms) == [id |-> id, verificationMethod |-> vms]
NoDoc == Doc("", <<>>)

\* what resolveDidDocument can return for did: the HTTP collaborator decides
DocsFor(did) ==
  { Doc(did, <<Vm(<<did, "keys-1">>, "EcdsaSecp256k1VerificationKey2019", Jwk("K1"))>>),
    Doc(did, <<Vm(<<did, "keys-1">>, "Ed25519VerificationKey2020", Jwk("K1"))>>),
    Doc(did, <<Vm(<<did, "keys-1">>, "EcdsaSecp256k1VerificationKey2019", JwkNoX("K1"))>>),
    Doc(did, <<Vm(<<createDidFromPublicJwk(Jwk("K1")), "keys-1">>,
                  "EcdsaSecp256k1VerificationKey2019", Jwk("K1"))>>) }

\* didToURL throws for a DID outside did:wba:, the request for a status
\* other than 200, DidDocumentSchema.parse for a malformed document
resolveDidDocument(did) ==
  IF did \notin WbaDids THEN { [threw |-> TRUE, doc |-> NoDoc] }
  ELSE { [threw |-> TRUE, doc |-> NoDoc] } \cup { [threw |-> FALSE, doc |-> d] : d \in DocsFor(did) }

Frag(id) == IF id = <<>> THEN "" ELSE id[Len(id)]

VmMatches(didDoc, m, vmRef) == <<didDoc.id, Frag(m.id)>> = vmRef \/ m.id = vmRef

\* Array.prototype.find: the first matching element, 0 for undefined
FindVm(didDoc, vmRef) ==
  LET hits == { i \in 1..Len(didDoc.verificationMethod) :
                  VmMatches(didDoc, didDoc.verificationMethod[i], vmRef) }
  IN  IF hits = {} THEN 0 ELSE CHOOSE i \in hits : \A j \in hits : i <= j

---------------------------------------------------------------------------
(* anp_auth/verifier.ts: Verifier.verifyDidWbaHeader, cut at its awaits *)

Ok(did) == [valid |-> TRUE, did |-> did, code |-> "ok"]
Fail(code) == [valid |-> FALSE, did |-> "", code |-> code]
Pending == [valid |-> FALSE, did |-> "", code |-> "pending"]

\* the injected nonce store, keeping an entry until its TTL has passed
StoreHas(store, key, t) == key \in DOMAIN store /\ ~(store[key] < t)
\* variant: a store that keeps nothing
StoreSet_Forgetful(store, key, ttlMs, t) == store
StoreSet(store, key, ttlMs, t) ==
  [k \in DOMAIN store \cup {key} |-> IF k = key THEN t + ttlMs ELSE store[k]]

NonceKey(parsed) == parsed.did \o ":" \o parsed.nonce

\* from the call to the first await: parse, timestamp check, nonceStore.has
VerifyBegin(header, t, on, store) ==
  LET parsed == parseAuthHeader(header)
  IN  IF ~parsed.ok
      THEN [next |-> "done", result |-> Fail("invalid_header_format"), used |-> FALSE,
            steps |-> <<"parse">>]
      ELSE IF ~verifyTimestamp(parsed.out.timestamp, t)
      THEN [next |-> "done", result |-> Fail("invalid_timestamp"), used |-> FALSE,
            steps |-> <<"parse", "timestamp">>]
      ELSE IF on
      THEN [next |-> "has", result |-> Pending, used |-> StoreHas(store, NonceKey(parsed.out), t),
            steps |-> <<"parse", "timestamp", "nonce.has">>]
      ELSE [next |-> "resolve", result |-> Pending, used |-> FALSE,
            steps |-> <<"parse", "timestamp">>]

\* variant: the nonce is never recorded
VerifyAfterHas_NoSet(parsed, used, t, store) ==
  IF used
  THEN [next |-> "done", result |-> Fail("nonce_reused"), store |-> store, steps |-> <<>>]
  ELSE [next |-> "resolve", result |-> Pending, store |-> store, steps |-> <<"nonce.set">>]

\* after has: reject a used nonce, else nonceStore.set(key, 5 * 60 * 1000)
VerifyAfterHas(parsed, used, t, store) ==
  IF used
  THEN [next |-> "done", result |-> Fail("nonce_reused"), store |-> store, steps |-> <<>>]
  ELSE [next |-> "resolve", result |-> Pending,
        store |-> StoreSet(store, NonceKey(parsed), NONCE_TTL_MS, t), steps |-> <<"nonce.set">>]

SignedPayload(parsed, serviceDomain) ==
  JObj(<< Mem("nonce", JStr(parsed.nonce)), Mem("timestamp", JStr(parsed.timestamp)),
          Mem("service", JStr(serviceDomain)), Mem("did", JStr(parsed.did)) >>)

\* the try block: resolution outcome, verification-method match, signature
VerifyResolved(parsed, serviceDomain, outcome) ==
  IF outcome.threw
  THEN [result |-> Fail("verification_failed"), steps |-> <<"resolve">>]
  ELSE
    LET didDoc == outcome.doc
        i == FindVm(didDoc, parsed.verification_method)
    IN  IF i = 0 \/ didDoc.verificationMethod[i].type \notin VmTypes
        THEN [result |-> Fail("vm_not_found"), steps |-> <<"resolve", "vm">>]
        ELSE
          LET vm == didDoc.verificationMethod[i]
              canonical == canonicalize(SignedPayload(parsed, serviceDomain))
              ok == verifySecp256k1Signature(vm.publicKeyJwk, canonical, parsed.signature)
          IN  IF ok.threw
              THEN [result |-> Fail("verification_failed"), steps |-> <<"resolve", "vm", "signature">>]
              ELSE IF ok.ok
              THEN [result |-> Ok(parsed.did), steps |-> <<"resolve", "vm", "signature">>]
              ELSE [result |-> Fail("invalid_signature"), steps |-> <<"resolve", "vm", "signature">>]

---------------------------------------------------------------------------
(* The headers presented to the Verifier *)

SpecHead == <<"DIDWba", " ">>
AuthHead == <<"DIDWba", ":", " ">>
Service == "svc.example"
DidA == "did:wba:a"

MkHeader(head, did, nonce, ts, vm, sig) ==
  [head |-> head,
   parts |-> << Part("did", did), Part("nonce", nonce), Part("timestamp", ts),
                Part("verification_method", vm), Part("signature", sig) >>,
   token |-> NoToken]

SignatureOf(K, did, nonce, ts, service) ==
  base64urlEncode(signSecp256k1(PrivateJwk(K),
    canonicalize(SignedPayload([did |-> did, nonce |-> nonce, timestamp |-> ts], service))).bytes)

SigChoice(kind, did, nonce, ts) ==
  CASE kind = "good" -> SignatureOf("K1", did, nonce, ts, Service)
    [] kind = "wrongkey" -> SignatureOf("K2", did, nonce, ts, Service)
    [] OTHER -> BadB64

Ts299 == toISOString(TIMESTAMP_MAX_SKEW_MS - 1000)
Ts300 == toISOString(TIMESTAMP_MAX_SKEW_MS)
Ts301 == toISOString(TIMESTAMP_MAX_SKEW_MS + 1000)

WbaHeader(nonce, ts, kind) ==
  MkHeader(SpecHead, DidA, nonce, ts, <<DidA, "keys-1">>, SigChoice(kind, DidA, nonce, ts))

MissingNonceHeader ==
  [head |-> SpecHead,
   parts |-> << Part("did", DidA), Part("timestamp", Ts300),
                Part("verification_method", <<DidA, "keys-1">>),
                Part("signature", SigChoice("good", DidA, "", Ts300)) >>,
   token |-> NoToken]

\* a header of another signer
WbaHeaderOf(did, nonce, ts) ==
  MkHeader(SpecHead, did, nonce, ts, <<did, "keys-1">>, SigChoice("good", did, nonce, ts))

Headers ==
  { WbaHeader("n1", Ts300, "good"), WbaHeader("n2", Ts300, "good"),
    WbaHeader("n1", Ts299, "good"), WbaHeader("n1", Ts301, "good"),
    WbaHeader("n1", "yesterday", "good"), WbaHeader("n1", Ts300, "wrongkey"),
    MissingNonceHeader,
    WbaHeaderOf("did:wba:a:b", "n1", Ts300), WbaHeader("b:n1", Ts300, "good") }

NoHeader == [head |-> <<>>, parts |-> <<>>, token |-> NoToken]

---------------------------------------------------------------------------
(* Spec: concurrent verifyDidWbaHeader calls on one Verifier, with time *)

Runs == {"r1", "r2"}

Unresolved == [threw |-> FALSE, doc |-> NoDoc]

IdleRun ==
  [pc |-> "idle", hdr |-> NoHeader, host |-> "", startAt |-> 0, after |-> {},
   parsed |-> [ok |-> FALSE, out |-> <<>>], used |-> FALSE, outcome |-> Unresolved,
   result |-> Pending, steps |-> <<>>]

\* the callers of Authenticator.createAuthorizationHeader
Callers == {"p1", "p2"}
IdleSigner == [pc |-> "idle"]

NoCall == [op |-> "none"]
NoCart == [stage |-> "none"]
NoPayment == [stage |-> "none"]

Init ==
  /\ now = 0
  /\ storeOn \in BOOLEAN
  /\ nonceStore = << >>
  /\ runs = [r \in Runs |-> IdleRun]
  /\ cache = << >>
  /\ uuids = 0
  /\ call = NoCall
  /\ cart = NoCart
  /\ payment = NoPayment
  /\ signers = [p \in Callers |-> IdleSigner]
  /\ issued = << >>
  /\ didCache = << >>
  /\ requests = << >>
  /\ admitted = << >>

Tick ==
  /\ \E t \in Times : t > now /\ now' = t
  /\ UNCHANGED <<storeOn, nonceStore, runs, cache, uuids, call, cart, payment, signers, issued, didCache, requests, admitted>>

\* the runs are named in the order in which they are called
Begin(r) ==
  /\ runs[r].pc = "idle"
  /\ r = "r2" => runs["r1"].pc # "idle"
  /\ \E header \in Headers :
       LET b == VerifyBegin(header, now, storeOn, nonceStore)
       IN  runs' = [runs EXCEPT ![r] =
                      [pc |-> b.next, hdr |-> header, host |-> Service, startAt |-> now,
                       after |-> { q \in Runs : runs[q].pc = "done" },
                       parsed |-> parseAuthHeader(header),
                       used |-> b.used, outcome |-> Unresolved, result |-> b.result,
                       steps |-> b.steps]]
  /\ UNCHANGED <<now, storeOn, nonceStore, cache, uuids, call, cart, payment, signers, issued, didCache, requests, admitted>>

AfterHas(r) ==
  /\ runs[r].pc = "has"
  /\ LET a == VerifyAfterHas(runs[r].parsed.out, runs[r].used, now, nonceStore)
     IN  /\ runs' = [runs EXCEPT ![r].pc = a.next, ![r].result = a.result,
                                 ![r].steps = @ \o a.steps]
         /\ nonceStore' = a.store
  /\ UNCHANGED <<now, storeOn, cache, uuids, call, cart, payment, signers, issued, didCache, requests, admitted>>

AfterResolve(r) ==
  /\ runs[r].pc = "resolve"
  /\ LET parsed == runs[r].parsed.out
     IN  \E outcome \in resolveDidDocument(parsed.did) :
           LET v == VerifyResolved(parsed, runs[r].host, outcome)
           IN  runs' = [runs EXCEPT ![r].pc = "done", ![r].outcome = outcome,
                                    ![r].result = v.result, ![r].steps = @ \o v.steps]
  /\ UNCHANGED <<now, storeOn, nonceStore, cache, uuids, call, cart, payment, signers, issued, didCache, requests, admitted>>

Next ==
  \/ Tick
  \/ \E r \in Runs : Begin(r)
  \/ \E r \in Runs : AfterHas(r)
  \/ \E r \in Runs : AfterResolve(r)

Spec == Init /\ [][Next]_vars

---------------------------------------------------------------------------
(* Properties of Spec *)

Started(r) == runs[r].pc # "idle"
Done(r) == runs[r].pc = "done"
ParsedOf(r) == runs[r].parsed
HasStep(r, step) == \E i \in 1..Len(runs[r].steps) : runs[r].steps[i] = step
SameDidNonce(r, q) ==
  /\ ParsedOf(r).ok /\ ParsedOf(q).ok
  /\ ParsedOf(r).out.did = ParsedOf(q).out.did
  /\ ParsedOf(r).out.nonce = ParsedOf(q).out.nonce
\* r was called after q had returned
Sequential(q, r) == q \in runs[r].after
\* the header timestamp is a well-formed instant at most 300 s from the call
FreshAtStart(r) ==
  \E t \in Instants : /\ toISOString(t) = ParsedOf(r).out.timestamp
                   /\ runs[r].startAt - t <= 300000
                   /\ t - runs[r].startAt <= 300000
\* the header carries K1's signature over its own fields and the service
WellSigned(r) ==
  /\ ParsedOf(r).ok
  /\ ParsedOf(r).out.signature =
       SignatureOf("K1", ParsedOf(r).out.did, ParsedOf(r).out.nonce,
                   ParsedOf(r).out.timestamp, runs[r].host)
\* the document resolved lists K1 under the header's verification method
GoodDocResolved(r) ==
  /\ ~runs[r].outcome.threw
  /\ \E i \in 1..Len(runs[r].outcome.doc.verificationMethod) :
       LET m == runs[r].outcome.doc.verificationMethod[i]
       IN  /\ m.type \in VmTypes
           /\ m.publicKeyJwk = Jwk("K1")
           /\ m.id \in { ParsedOf(r).out.verification_method, <<"keys-1">> }

PassedNonce(r) == HasStep(r, "nonce.set")
Concurrent(q, r) == Started(q) /\ Started(r) /\ ~Sequential(q, r) /\ ~Sequential(r, q)

\* C2: of concurrent calls that carry the same (did, nonce) against the
\* shared nonce store, at most one passes the nonce check.
C2_AtMostOnePassesNonce ==
  \A q \in Runs : \A r \in Runs :
    (q # r /\ storeOn /\ Concurrent(q, r) /\ SameDidNonce(q, r))
      => ~(PassedNonce(q) /\ PassedNonce(r))

\* C3: a header that was accepted once is never accepted again at a later
\* time at which its timestamp is still within 300 s of the verification time.
C3_NoReplayInWindow ==
  \A q \in Runs : \A r \in Runs :
    (q # r /\ storeOn /\ Sequential(q, r) /\ runs[q].result.valid
       /\ runs[r].hdr = runs[q].hdr /\ Done(r) /\ FreshAtStart(r))
      => ~runs[r].result.valid

PassedTimestamp(r) ==
  /\ Len(runs[r].steps) >= 2
  /\ runs[r].result # Fail("invalid_timestamp")

StepOrder ==
  IF storeOn
  THEN <<"parse", "timestamp", "nonce.has", "nonce.set", "resolve", "vm", "signature">>
  ELSE <<"parse", "timestamp", "resolve", "vm", "signature">>

StepCode(step) ==
  CASE step = "parse" -> "invalid_header_format"
    [] step = "timestamp" -> "invalid_timestamp"
    [] step = "nonce.has" -> "nonce_reused"
    [] step = "resolve" -> "verification_failed"
    [] step = "vm" -> "vm_not_found"
    [] step = "signature" -> "invalid_signature"
    [] OTHER -> "none"

\* C6: a run executes a prefix of parse, timestamp, nonce, resolve,
\* verification method, signature in that order; it is accepted only after
\* all of them, and a rejected run carries the code of the last step it
\* executed, which is the step that failed.
C6_StepsInOrder ==
  \A r \in Runs :
    Done(r) =>
      /\ Len(runs[r].steps) <= Len(StepOrder)
      /\ runs[r].steps = SubSeq(StepOrder, 1, Len(runs[r].steps))
      /\ runs[r].result.valid => runs[r].steps = StepOrder
      /\ ~runs[r].result.valid =>
           runs[r].result.code = StepCode(runs[r].steps[Len(runs[r].steps)])

---------------------------------------------------------------------------
(* anp_auth/authenticator.ts: the Authenticator and its header cache *)

MaxUuids == 2     \* UUIDs the Authenticator may draw

HEADER_CACHE_TTL_MS == 30000

AuthDid == DidA
AuthKey == PrivateJwk("K1")
\* set by the constructor: `${createDidDocument(privateKey).id}#keys-1`
AuthVerificationMethod == <<createDidDocument(AuthKey).id, "keys-1">>

Urls == {"https://svc.example/orders", "https://other.example/orders"}
Methods == {"GET", "POST"}
\* new URL(url).host
UrlHost(url) == IF url = "https://svc.example/orders" THEN "svc.example" ELSE "other.example"

randomUUID(n) == "uuid-" \o ToString(n)

\* InMemoryCache.get: a hit whose expiresAt lies before now is dropped
CacheGet(c, key, t) ==
  IF key \notin DOMAIN c THEN [hit |-> FALSE, value |-> NoHeader, cache |-> c]
  ELSE IF c[key].expiresAt # 0 /\ c[key].expiresAt < t
  THEN [hit |-> FALSE, value |-> NoHeader,
        cache |-> [k \in DOMAIN c \ {key} |-> c[k]]]
  ELSE [hit |-> TRUE, value |-> c[key].value, cache |-> c]

\* InMemoryCache.set: expiresAt 0 stands for no expiry (a falsy ttl)
CacheSet(c, key, value, ttl, t) ==
  [k \in DOMAIN c \cup {key} |->
     IF k = key THEN [value |-> value, expiresAt |-> IF ttl # 0 THEN t + ttl ELSE 0]
     ELSE c[k]]

\* Authenticator.signRequest: the cached header, or a freshly signed one
signRequest(url, method, t, c, n) ==
  LET cacheKey == method \o " " \o url
      cached == CacheGet(c, cacheKey, t)
      service == UrlHost(url)
      nonce == randomUUID(n + 1)
      timestamp == toISOString(t)
      payload == JObj(<< Mem("nonce", JStr(nonce)), Mem("timestamp", JStr(timestamp)),
                         Mem("service", JStr(service)), Mem("did", JStr(AuthDid)) >>)
      sigBytes == signSecp256k1(AuthKey, canonicalize(payload))
      header == MkHeader(AuthHead, AuthDid, nonce, timestamp, AuthVerificationMethod,
                         base64urlEncode(sigBytes.bytes))
  IN  IF cached.hit
      THEN [header |-> cached.value, cache |-> cached.cache, uuids |-> n, fresh |-> FALSE]
      ELSE [header |-> header,
            cache |-> CacheSet(cached.cache, cacheKey, header, HEADER_CACHE_TTL_MS, t),
            uuids |-> n + 1, fresh |-> TRUE]

---------------------------------------------------------------------------
(* core/jwt.ts (HS256) and Verifier.verifyRequest *)

JwtSecret == "S1"

NoPayload == [subKind |-> "absent", sub |-> ""]

\* jose jwtVerify: the compact form, the HMAC under the secret, exp in seconds
jwtVerify(token, secret, t) ==
  /\ token.kind = "jwt"
  /\ token.secret = secret
  /\ token.hasExp => token.exp * 1000 > t

\* variant: the payload is decoded without verifying the token
verifyJwt_Decode(token, secret, t) ==
  IF token.kind = "jwt"
  THEN [isNull |-> FALSE, payload |-> [subKind |-> token.subKind, sub |-> token.sub]]
  ELSE [isNull |-> TRUE, payload |-> NoPayload]

\* verifyJwt: {payload}, or null when jwtVerify throws
verifyJwt(token, secret, t) ==
  IF jwtVerify(token, secret, t)
  THEN [isNull |-> FALSE, payload |-> [subKind |-> token.subKind, sub |-> token.sub]]
  ELSE [isNull |-> TRUE, payload |-> NoPayload]

\* undefined and "" are both falsy
Falsy(h) == h.head = <<>> /\ h.parts = <<>>

\* verifyDidWbaHeader run to completion with no other call in between
verifyDidWbaHeader(header, serviceDomain, t, on, store, outcome) ==
  LET b == VerifyBegin(header, t, on, store)
      parsed == parseAuthHeader(header).out
      a == IF b.next = "has" THEN VerifyAfterHas(parsed, b.used, t, store)
           ELSE [next |-> b.next, result |-> b.result, store |-> store, steps |-> <<>>]
      v == VerifyResolved(parsed, serviceDomain, outcome)
  IN  IF a.next = "done"
      THEN [result |-> a.result, store |-> a.store, steps |-> b.steps \o a.steps]
      ELSE [result |-> v.result, store |-> a.store, steps |-> b.steps \o a.steps \o v.steps]

\* the Bearer branch: res.payload.sub on a null res throws inside the try
VerifyBearer(token, t) ==
  LET res == verifyJwt(token, JwtSecret, t)
      did == IF ~res.isNull /\ res.payload.subKind = "string" THEN res.payload.sub ELSE ""
  IN  IF res.isNull THEN Fail("invalid_jwt")
      ELSE IF did = "" THEN Fail("invalid_jwt_sub")
      ELSE Ok(did)

verifyRequest(req, t, on, store, outcome) ==
  LET auth == IF ~Falsy(req.authorization) THEN req.authorization ELSE req.Authorization
      host == IF req.host # "" THEN req.host ELSE req.xForwardedHost
  IN  IF Falsy(auth)
      THEN [result |-> Fail("missing_header"), store |-> store, path |-> "none", steps |-> <<>>]
      ELSE IF StartsWith(auth.head, <<"Bearer", " ">>)
      THEN [result |-> VerifyBearer(auth.token, t), store |-> store, path |-> "jwt", steps |-> <<>>]
      ELSE IF StartsWith(auth.head, <<"DIDWba", ":">>)
      THEN IF host = ""
           THEN [result |-> Fail("missing_host"), store |-> store, path |-> "didwba", steps |-> <<>>]
           ELSE LET d == verifyDidWbaHeader(auth, host, t, on, store, outcome)
                IN  [result |-> d.result, store |-> d.store, path |-> "didwba", steps |-> d.steps]
      ELSE [result |-> Fail("unsupported_scheme"), store |-> store, path |-> "none", steps |-> <<>>]

---------------------------------------------------------------------------
(* SpecRequest: verifyRequest on requests made by hand.                    *)
(* SpecAuth: an Authenticator issuing headers that are then presented.     *)

BearerHeader(token) == [head |-> <<"Bearer", " ">>, parts |-> <<>>, token |-> token]
BasicHeader == [head |-> <<"Basic", " ">>, parts |-> <<>>, token |-> NoToken]
\* a header in the format of the Authenticator, made by hand
ColonHeader ==
  MkHeader(AuthHead, DidA, "n1", Ts300, <<DidA, "keys-1">>, SigChoice("good", DidA, "n1", Ts300))

Tokens ==
  { Jwt("S1", "string", DidA, FALSE, 0), Jwt("S1", "string", DidA, TRUE, 300),
    Jwt("S2", "string", DidA, FALSE, 0), Jwt("S1", "absent", "", FALSE, 0),
    Jwt("S1", "number", "42", FALSE, 0), Jwt("S1", "string", "", FALSE, 0),
    MalformedToken }

CraftedHeaders ==
  { BearerHeader(k) : k \in Tokens }
    \cup { WbaHeader("n1", Ts300, "good"), ColonHeader, BasicHeader, NoHeader }

Request(a, A, host, fwd) ==
  [authorization |-> a, Authorization |-> A, host |-> host, xForwardedHost |-> fwd]

\* the header under either spelling of the name, the host under either header
RequestsWith(h) ==
  { Request(h, NoHeader, Service, ""), Request(NoHeader, h, Service, ""),
    Request(h, NoHeader, "", ""), Request(h, NoHeader, "", Service) }

\* what the resolver is asked: nothing unless the DID-WBA branch is taken
Outcomes(h, did) == IF StartsWith(h.head, <<"DIDWba", ":">>) THEN resolveDidDocument(did) ELSE {Unresolved}

NoIssue == [url |-> "", at |-> 0]

SignRequest ==
  /\ \E url \in Urls : \E method \in Methods :
       LET s == signRequest(url, method, now, cache, uuids)
       IN  /\ s.uuids <= MaxUuids
           /\ cache' = s.cache
           /\ uuids' = s.uuids
           /\ call' = [op |-> "signRequest", url |-> url, method |-> method, at |-> now,
                       header |-> s.header, fresh |-> s.fresh]
  /\ UNCHANGED <<now, storeOn, nonceStore, runs, cart, payment, signers, issued, didCache, requests, admitted>>

VerifyCall(req, issue, outcome) ==
  LET v == verifyRequest(req, now, storeOn, nonceStore, outcome)
  IN  /\ nonceStore' = v.store
      /\ call' = [op |-> "verifyRequest", req |-> req, at |-> now, issue |-> issue,
                  outcome |-> outcome, result |-> v.result, path |-> v.path, steps |-> v.steps]

\* a request made by hand
VerifyRequestCrafted ==
  /\ \E h \in CraftedHeaders :
       \E req \in RequestsWith(h) \cup {Request(BearerHeader(MalformedToken), h, Service, "")} :
         \E outcome \in Outcomes(h, DidA) : VerifyCall(req, NoIssue, outcome)
  /\ UNCHANGED <<now, storeOn, runs, cache, uuids, cart, payment, signers, issued, didCache, requests, admitted>>

\* the request carries, unchanged, the header the Authenticator just returned
VerifyRequestIssued ==
  /\ call.op = "signRequest"
  /\ \E req \in RequestsWith(call.header) :
       \E outcome \in Outcomes(call.header, AuthDid) :
         VerifyCall(req, [url |-> call.url, at |-> call.at], outcome)
  /\ UNCHANGED <<now, storeOn, runs, cache, uuids, cart, payment, signers, issued, didCache, requests, admitted>>

NextRequest ==
  \/ Tick
  \/ VerifyRequestCrafted

SpecRequest == Init /\ [][NextRequest]_vars

NextAuth ==
  \/ Tick
  \/ SignRequest
  \/ VerifyRequestIssued

SpecAuth == Init /\ [][NextAuth]_vars

---------------------------------------------------------------------------
(* Properties of SpecRequest and SpecAuth *)

Verified == call.op = "verifyRequest"
\* the Authorization header of the request, under either spelling
AuthOf(req) == IF ~Falsy(req.authorization) THEN req.authorization ELSE req.Authorization
IsBearer(h) == StartsWith(h.head, <<"Bearer", " ">>)
\* the request format DIDWba did="...", nonce="...", ...
IsDidWba(h) == StartsWith(h.head, <<"DIDWba", " ">>)
PartOf(h, k) == h.parts[CHOOSE i \in 1..Len(h.parts) : h.parts[i].k = k].v

\* the resolved document lists K1 under the header's verification_method
ListsKeyUnder(outcome, vmRef) ==
  /\ ~outcome.threw
  /\ \E i \in 1..Len(outcome.doc.verificationMethod) :
       LET m == outcome.doc.verificationMethod[i]
       IN  m.id = vmRef /\ m.type \in VmTypes /\ m.publicKeyJwk = Jwk("K1")

\* C4: a header built by the Authenticator for DID D and key K, presented
\* unchanged within 300 s as the Authorization header of a request whose Host
\* is the host of the URL, is accepted by verifyRequest with {valid, did: D}
\* when the resolved document lists K under the header's verification_method.
C4_IssuedHeaderAccepted ==
  (/\ Verified
   /\ call.issue.url # ""
   /\ call.req.host = UrlHost(call.issue.url)
   /\ call.at - call.issue.at <= TIMESTAMP_MAX_SKEW_MS
   /\ ListsKeyUnder(call.outcome, PartOf(AuthOf(call.req), "verification_method")))
    => call.result = Ok(AuthDid)

\* C7: verifyRequest dispatches on the scheme: no header gives
\* missing_header, a Bearer header takes the JWT path, a DIDWba header takes
\* the DID-WBA path, every other header gives unsupported_scheme.
C7_SchemeDispatch ==
  Verified =>
    LET auth == AuthOf(call.req)
    IN  /\ Falsy(auth) => call.result = Fail("missing_header")
        /\ IsBearer(auth) => call.path = "jwt"
        /\ IsDidWba(auth) => call.path = "didwba"
        /\ (~Falsy(auth) /\ ~IsBearer(auth) /\ ~IsDidWba(auth))
             => call.result = Fail("unsupported_scheme")

\* the token is an HS256 token of the shared secret that has not expired
TokenVerifies(token, t) ==
  /\ token.kind = "jwt"
  /\ token.secret = JwtSecret
  /\ token.hasExp => token.exp * 1000 > t

\* C8: for a Bearer header verifyRequest answers {valid, did} only if the
\* token verifies under the shared secret and carries a string sub, did being
\* that sub; a verifying token without sub is rejected with invalid_jwt_sub,
\* and a token that fails verification is never accepted.
C8_BearerPath ==
  (Verified /\ IsBearer(AuthOf(call.req))) =>
    LET token == AuthOf(call.req).token
    IN  /\ call.result.valid =>
             /\ TokenVerifies(token, call.at)
             /\ token.subKind = "string"
             /\ call.result.did = token.sub
        /\ (TokenVerifies(token, call.at) /\ token.subKind = "absent")
             => call.result = Fail("invalid_jwt_sub")
        /\ ~TokenVerifies(token, call.at) => ~call.result.valid

C8_Witness ==
  /\ Verified /\ IsBearer(AuthOf(call.req))
  /\ AuthOf(call.req).token.hasExp
  /\ call.result = Ok(DidA)

---------------------------------------------------------------------------
(* SpecSig: verifySecp256k1Signature on untrusted keys and signatures *)

Payloads == {"p1", "p2"}

PublicJwks == UNION { {Jwk(K), JwkNoX(K), JwkNoY(K), JwkShortX(K)} : K \in Keys }

SignatureTexts ==
  { base64urlEncode(signSecp256k1(PrivateJwk(K), p).bytes) : K \in Keys, p \in Payloads }
    \cup { base64urlEncode(HighSBytes(K, sha256(p))) : K \in Keys, p \in Payloads }
    \cup { base64urlEncode(ShortBytes), BadB64, EmptyB64 }

VerifySignature ==
  /\ \E jwk \in PublicJwks : \E payload \in Payloads : \E sig \in SignatureTexts :
       call' = [op |-> "verifySecp256k1Signature", jwk |-> jwk, payload |-> payload,
                signature |-> sig, out |-> verifySecp256k1Signature(jwk, payload, sig)]
  /\ UNCHANGED <<now, storeOn, nonceStore, runs, cache, uuids, cart, payment, signers, issued, didCache, requests, admitted>>

NextSig == VerifySignature

SpecSig == Init /\ [][NextSig]_vars

SigChecked == call.op = "verifySecp256k1Signature"

MalformedSignature(sig) ==
  sig.kind # "b64" \/ sig.bytes.kind # "sig" \/ sig.bytes.len # 64 \/ sig.bytes.highS

MalformedKey(jwk) ==
  JwkField(jwk, "x") = "" \/ JwkField(jwk, "y") = "" \/ jwk \notin { Jwk(K) : K \in Keys }

\* C9: verifySecp256k1Signature is total: for a malformed signature (not
\* base64url, not 64 bytes, non-canonical s) and for a malformed public key
\* (no x or y, wrong coordinate length) it returns false and never throws.
C9_VerifyTotal ==
  (SigChecked /\ (MalformedSignature(call.signature) \/ MalformedKey(call.jwk)))
    => (~call.out.threw /\ ~call.out.ok)

---------------------------------------------------------------------------
(* anp_ap2/models: the zod schemas.  z.object strips unknown keys, fills   *)
(* defaults and fails on a missing or ill-typed required member.           *)

PositiveInts == {"1", "2", "3"}

ZAtom(t) == [t |-> t]
ZObject(fields) == [t |-> "obj", fields |-> fields]
ZArray(item) == [t |-> "arr", item |-> item]
\* z.literal and z.enum over strings
ZLiteral(values) == [t |-> "literal", values |-> values]
Required(k, schema) == [k |-> k, schema |-> schema, mode |-> "required", def |-> JUndefined]
Optional(k, schema) == [k |-> k, schema |-> schema, mode |-> "optional", def |-> JUndefined]
Default(k, schema, def) == [k |-> k, schema |-> schema, mode |-> "default", def |-> def]

RECURSIVE ZodParse(_, _), ParseFields(_, _), ParseItems(_, _)
\* schema.parse(v): [ok, v], ok FALSE standing for a thrown ZodError
ZodParse(schema, v) ==
  CASE schema.t = "obj" ->
         IF v.t # "obj" THEN [ok |-> FALSE, v |-> JUndefined]
         ELSE LET r == ParseFields(schema.fields, v.m)
              IN  [ok |-> r.ok, v |-> JObj(r.m)]
    [] schema.t = "arr" ->
         IF v.t # "arr" THEN [ok |-> FALSE, v |-> JUndefined]
         ELSE LET r == ParseItems(schema.item, v.m)
              IN  [ok |-> r.ok, v |-> [t |-> "arr", s |-> "", m |-> r.m]]
    [] schema.t = "posint" -> [ok |-> v.t = "num" /\ v.s \in PositiveInts, v |-> v]
    [] schema.t = "any" -> [ok |-> TRUE, v |-> v]
    [] schema.t = "record" -> [ok |-> v.t = "obj", v |-> v]
    [] schema.t = "literal" -> [ok |-> v.t = "str" /\ v.s \in schema.values, v |-> v]
    [] OTHER -> [ok |-> v.t = schema.t, v |-> v]
ParseFields(fields, m) ==
  IF fields = <<>> THEN [ok |-> TRUE, m |-> <<>>]
  ELSE
    LET f == Head(fields)
        rest == ParseFields(Tail(fields), m)
        here == ZodParse(f.schema, Member(m, f.k))
    IN  IF ~HasMember(m, f.k)
        THEN CASE f.mode = "required" -> [ok |-> FALSE, m |-> <<>>]
               [] f.mode = "optional" -> rest
               [] OTHER -> [ok |-> rest.ok, m |-> <<Mem(f.k, f.def)>> \o rest.m]
        ELSE [ok |-> here.ok /\ rest.ok, m |-> <<Mem(f.k, here.v)>> \o rest.m]
ParseItems(item, m) ==
  IF m = <<>> THEN [ok |-> TRUE, m |-> <<>>]
  ELSE LET here == ZodParse(item, Head(m).v)
           rest == ParseItems(item, Tail(m))
       IN  [ok |-> here.ok /\ rest.ok, m |-> <<Mem(Head(m).k, here.v)>> \o rest.m]

AssetAmountSchema ==
  ZObject(<< Required("currency", ZAtom("str")), Required("value", ZAtom("str")) >>)
DisplayItemSchema ==
  ZObject(<< Optional("id", ZAtom("str")), Optional("sku", ZAtom("str")),
             Required("label", ZAtom("str")), Default("quantity", ZAtom("posint"), JNum("1")),
             Required("amount", AssetAmountSchema) >>)
PaymentTotalSchema ==
  ZObject(<< Required("label", ZAtom("str")), Required("amount", AssetAmountSchema) >>)
PaymentDetailsSchema ==
  ZObject(<< Required("id", ZAtom("str")),
             Default("displayItems", ZArray(DisplayItemSchema), JArr(<<>>)),
             Required("total", PaymentTotalSchema) >>)
PaymentMethodDataSchema ==
  ZObject(<< Required("supported_methods", ZAtom("str")), Optional("data", ZAtom("any")) >>)
PaymentRequestOptionsSchema ==
  ZObject(<< Optional("requestShipping", ZAtom("bool")) >>)
PaymentRequestSchema ==
  ZObject(<< Default("method_data", ZArray(PaymentMethodDataSchema), JArr(<<>>)),
             Required("details", PaymentDetailsSchema),
             Optional("options", PaymentRequestOptionsSchema) >>)
CartContentsSchema ==
  ZObject(<< Required("id", ZAtom("str")),
             Default("user_signature_required", ZAtom("bool"), JBool(FALSE)),
             Required("payment_request", PaymentRequestSchema) >>)

---------------------------------------------------------------------------
(* core/jwt.ts: signJwtWithAlgorithm and verifyJwtWithAlgorithm.  A PEM is *)
(* its label (kind), the key type and the key; a JWS is its header alg,    *)
(* its payload and its signature text.                                     *)

Pem(kind, type, K) == [kind |-> kind, type |-> type, key |-> K]
EmptyPem == Pem("empty", "", "")

\* a numeric claim that is not in the payload
NoTime == -1

\* the payload of a token: a claim left out is "", <<>>, JUndefined or NoTime
Claims(cart_hash, iss, iat, exp, aud) ==
  [cart_hash |-> cart_hash, iss |-> iss, iat |-> iat, exp |-> exp,
   aud |-> IF aud = "" THEN JUndefined ELSE JStr(aud),
   nbf |-> NoTime, transaction_data |-> << >>, contents |-> JUndefined]
NoClaims == Claims("", "", 0, 0, "")

Jws(alg, payload, sig) == [kind |-> "jws", alg |-> alg, payload |-> payload, sig |-> sig]
NoJws == [kind |-> "none", alg |-> "", payload |-> NoClaims, sig |-> EmptyB64]
\* a string that does not split into three segments
GarbledJws == [kind |-> "garbled", alg |-> "", payload |-> NoClaims, sig |-> EmptyB64]

RECURSIVE JoinStrings(_)
JoinStrings(q) == IF q = << >> THEN "" ELSE Head(q) \o "," \o JoinStrings(Tail(q))

\* base64url(header) "." base64url(payload)
SigningInput(alg, payload) ==
  alg \o "." \o payload.cart_hash \o "." \o payload.iss \o "." \o ToString(payload.iat)
      \o "." \o ToString(payload.exp) \o "." \o canonicalize(payload.aud)
      \o "." \o ToString(payload.nbf) \o "." \o JoinStrings(payload.transaction_data)
      \o "." \o canonicalize(payload.contents)

\* PKCS#8 only: the label must be BEGIN PRIVATE KEY, the key an EC key
importSecp256k1PrivateKeyFromPem(pem) ==
  IF pem.kind = "pkcs8" /\ pem.type = "EC"
  THEN [threw |-> FALSE, jwk |-> PrivateJwk(pem.key)]
  ELSE [threw |-> TRUE, jwk |-> Jwk("")]

\* jose importPKCS8 / importSPKI for RS256
importPKCS8(pem) == [threw |-> ~(pem.kind = "pkcs8" /\ pem.type = "RSA"), key |-> pem.key]
importSPKI(pem) == [threw |-> ~(pem.kind = "spki" /\ pem.type = "RSA"), key |-> pem.key]

signJwtWithAlgorithm(payload, privateKeyPem, algorithm) ==
  IF algorithm = "ES256K"
  THEN LET privateJwk == importSecp256k1PrivateKeyFromPem(privateKeyPem)
           signature == signSecp256k1(privateJwk.jwk, SigningInput("ES256K", payload))
       IN  IF privateJwk.threw THEN [threw |-> TRUE, jwt |-> NoJws]
           ELSE [threw |-> FALSE, jwt |-> Jws("ES256K", payload, base64urlEncode(signature.bytes))]
  ELSE LET key == importPKCS8(privateKeyPem)
       IN  IF key.threw THEN [threw |-> TRUE, jwt |-> NoJws]
           ELSE [threw |-> FALSE,
                 jwt |-> Jws(algorithm, payload,
                             base64urlEncode(SigBytes(key.key, sha256(SigningInput(algorithm, payload)))))]

\* the strings of a string-or-array value; a falsy value has none
StringsOf(v) ==
  CASE v.t = "arr" -> {v.m[i].v.s : i \in 1..Len(v.m)}
    [] v.t = "str" /\ v.s # "" -> {v.s}
    [] OTHER -> {}
\* undefined and "" are falsy, an array (even an empty one) is not
Truthy(v) == v.t = "arr" \/ (v.t = "str" /\ v.s # "")

\* variant: the audience is not compared
AudienceOk_Skipped(payload, audience) == TRUE
\* options?.audience: checked only when truthy; some expected audience must
\* be among the token's
AudienceOk(payload, audience) ==
  Truthy(audience) => StringsOf(audience) \cap StringsOf(payload.aud) # {}

\* jose validateClaimsSet: a given audience makes aud a required claim
JoseAudienceOk(payload, audience) ==
  /\ audience.t # "undefined" => payload.aud.t # "undefined"
  /\ AudienceOk(payload, audience)

JwtThrew(message) == [threw |-> TRUE, error |-> message, payload |-> NoClaims]

\* payload.exp && payload.exp < now
Es256kExpired(payload, nowS) == payload.exp # NoTime /\ payload.exp # 0 /\ payload.exp < nowS
\* payload.nbf && payload.nbf > now
Es256kNotYetValid(payload, nowS) == payload.nbf # NoTime /\ payload.nbf # 0 /\ payload.nbf > nowS

\* t is Date.now(), compared in seconds; audience is options?.audience,
\* JUndefined when no options are passed
verifyJwtWithAlgorithm(token, publicKeyPem, algorithm, audience, t) ==
  LET nowS == t \div 1000
      payload == token.payload
  IN  IF algorithm = "ES256K"
      THEN LET publicJwk == importSecp256k1PrivateKeyFromPem(publicKeyPem)
               isValid == verifySecp256k1Signature(publicJwk.jwk, SigningInput(token.alg, payload),
                                                   token.sig)
           IN  IF token.kind # "jws" THEN JwtThrew("Invalid JWT format")
               ELSE IF token.alg # "ES256K" THEN JwtThrew("Algorithm mismatch")
               ELSE IF publicJwk.threw THEN JwtThrew("Only PKCS#8 'BEGIN PRIVATE KEY' is supported")
               ELSE IF isValid.threw THEN JwtThrew("invalid signature encoding")
               ELSE IF ~isValid.ok THEN JwtThrew("Invalid signature")
               ELSE IF Es256kExpired(payload, nowS) THEN JwtThrew("JWT expired")
               ELSE IF Es256kNotYetValid(payload, nowS) THEN JwtThrew("JWT not yet valid")
               ELSE IF ~AudienceOk(payload, audience) THEN JwtThrew("Audience mismatch")
               ELSE [threw |-> FALSE, error |-> "none", payload |-> payload]
      ELSE LET key == importSPKI(publicKeyPem)
           IN  IF key.threw THEN JwtThrew("\"spki\" must be SPKI formatted string")
               ELSE IF token.kind # "jws" THEN JwtThrew("Invalid Compact JWS")
               ELSE IF token.alg # algorithm THEN JwtThrew("\"alg\" Header Parameter value not allowed")
               ELSE IF token.sig # base64urlEncode(SigBytes(key.key,
                                      sha256(SigningInput(token.alg, payload))))
               THEN JwtThrew("signature verification failed")
               ELSE IF ~JoseAudienceOk(payload, audience)
               THEN JwtThrew("\"aud\" claim check failed")
               ELSE IF payload.nbf # NoTime /\ payload.nbf > nowS
               THEN JwtThrew("\"nbf\" claim timestamp check failed")
               ELSE IF payload.exp # NoTime /\ payload.exp <= nowS
               THEN JwtThrew("\"exp\" claim timestamp check failed")
               ELSE [threw |-> FALSE, error |-> "none", payload |-> payload]

---------------------------------------------------------------------------
(* anp_ap2/utils/canonical.ts, builders/cart.ts, services/verifier.ts *)

CART_TTL_SECONDS == 900
ShortTtlSeconds == 300      \* the ttlSeconds option of the short-lived builder

\* JSON.stringify(value, allowlist): only the listed member names are
\* serialised, at every depth, in the order of the list
RECURSIVE StringifyListed(_, _), ListedMembers(_, _), ListedElements(_, _)
StringifyListed(v, ks) ==
  CASE v.t = "str" -> "\"" \o v.s \o "\""
    [] v.t = "obj" -> "{" \o ListedMembers(v.m, SelectSeq(ks, LAMBDA k : HasMember(v.m, k))) \o "}"
    [] v.t = "arr" -> "[" \o ListedElements(v.m, ks) \o "]"
    [] OTHER -> v.s
ListedElements(m, ks) ==
  IF m = <<>> THEN ""
  ELSE StringifyListed(Head(m).v, ks) \o (IF Len(m) > 1 THEN "," ELSE "")
       \o ListedElements(Tail(m), ks)
ListedMembers(m, ks) ==
  IF ks = <<>> THEN ""
  ELSE "\"" \o Head(ks) \o "\":" \o StringifyListed(Member(m, Head(ks)), ks)
       \o (IF Len(ks) > 1 THEN "," ELSE "") \o ListedMembers(m, Tail(ks))

\* variant: only the top-level member names are kept, as in
\* JSON.stringify(obj, Object.keys(obj).sort())
jcs_TopLevelKeys(data) == StringifyListed(data, SortedKeysOf(data.m))

jcs(data) == canonicalize(data)

sha256B64Url(data) == "b64url(" \o sha256(data) \o ")"

cartHash(contents) == sha256B64Url(jcs(contents))

MerchantDid == "did:wba:merchant"
ShopperDid == "did:wba:shopper"

BuilderOptions(pem, algorithm, ttlSeconds, shopperDid) ==
  [merchantPrivateKeyPem |-> pem, merchantDid |-> MerchantDid, algorithm |-> algorithm,
   ttlSeconds |-> ttlSeconds, shopperDid |-> shopperDid]

Mandate(contents, jws) == [contents |-> contents, merchant_authorization |-> jws]
NoMandate == Mandate(JUndefined, NoJws)

\* CartMandateBuilder.build with BaseMandateBuilder.sign; algorithm "" and
\* ttlSeconds 0 stand for options left out
CartMandateBuilderBuild(opts, contentsInput, t) ==
  LET contents == ZodParse(CartContentsSchema, contentsInput)
      algorithm == IF opts.algorithm = "" THEN "RS256" ELSE opts.algorithm
      ttlSeconds == IF opts.ttlSeconds = 0 THEN CART_TTL_SECONDS ELSE opts.ttlSeconds
      nowS == t \div 1000
      payload == [Claims(cartHash(contents.v), opts.merchantDid, nowS, nowS + ttlSeconds,
                         opts.shopperDid) EXCEPT !.contents = SortedValue(contents.v)]
      jws == signJwtWithAlgorithm(payload, opts.merchantPrivateKeyPem, algorithm)
  IN  IF ~contents.ok THEN [threw |-> TRUE, error |-> "SchemaValidationError", mandate |-> NoMandate]
      ELSE IF jws.threw THEN [threw |-> TRUE, error |-> "MandateBuildError", mandate |-> NoMandate]
      ELSE [threw |-> FALSE, error |-> "none", mandate |-> Mandate(contents.v, jws.jwt)]

\* services/verifier.ts verifyJwt: the options carry an audience only when
\* expectedAudience ("" when left out) is truthy
verifyJwt_Service(token, publicKeyPem, algorithm, expectedAudience, t) ==
  verifyJwtWithAlgorithm(token, publicKeyPem, algorithm,
                         IF expectedAudience # "" THEN JStr(expectedAudience) ELSE JUndefined, t)

VerifyOptions(pem, algorithm, expected_aud) ==
  [merchant_public_key_pem |-> pem, algorithm |-> algorithm, expected_aud |-> expected_aud]

Thrown(error, jwtVerified) ==
  [threw |-> TRUE, error |-> error, payload |-> NoClaims, jwtVerified |-> jwtVerified]

\* verifyCartMandate; jwtVerified records that the verifyJwt step returned
verifyCartMandate(mandate, opts, t) ==
  LET parsedContents == ZodParse(CartContentsSchema, mandate.contents)
      token == mandate.merchant_authorization
      algorithm == IF opts.algorithm = "" THEN "RS256" ELSE opts.algorithm
      jwt == verifyJwt_Service(token, opts.merchant_public_key_pem, algorithm,
                               opts.expected_aud, t)
      expectedHash == cartHash(parsedContents.v)
  IN  IF ~parsedContents.ok \/ token.kind = "none" THEN Thrown("ZodError", FALSE)
      ELSE IF opts.merchant_public_key_pem.kind = "empty" THEN Thrown("ZodError", FALSE)
      ELSE IF jwt.threw THEN Thrown("MandateVerificationError", FALSE)
      ELSE IF jwt.payload.cart_hash # expectedHash THEN Thrown("CartHashMismatchError", TRUE)
      ELSE [threw |-> FALSE, error |-> "none", payload |-> jwt.payload, jwtVerified |-> TRUE]

---------------------------------------------------------------------------
(* SpecCart: a cart mandate is built, carried, possibly altered on the way *)
(* and verified                                                            *)

Amount(value) == JObj(<< Mem("currency", JStr("USD")), Mem("value", JStr(value)) >>)

CartDetails ==
  JObj(<< Mem("id", JStr("order-1")),
          Mem("displayItems",
              JArr(<< JObj(<< Mem("label", JStr("item")), Mem("quantity", JNum("1")),
                              Mem("amount", Amount("10.00")) >>) >>)),
          Mem("total", JObj(<< Mem("label", JStr("Total")), Mem("amount", Amount("10.00")) >>)) >>)

\* complete contents, and contents that leave the defaulted members out and
\* carry a member the schema does not know
FullContents ==
  JObj(<< Mem("id", JStr("cart-1")), Mem("user_signature_required", JBool(TRUE)),
          Mem("payment_request",
              JObj(<< Mem("method_data", JArr(<< JObj(<< Mem("supported_methods", JStr("card")) >>) >>)),
                      Mem("details", CartDetails) >>)) >>)
SparseContents ==
  JObj(<< Mem("note", JStr("gift")),
          Mem("payment_request", JObj(<< Mem("details", CartDetails) >>)),
          Mem("id", JStr("cart-1")) >>)
BadContents == JObj(<< Mem("id", JStr("cart-1")) >>)

ContentsInputs == {FullContents, SparseContents, BadContents}

Builders ==
  { BuilderOptions(Pem("pkcs8", "RSA", "K1"), "", 0, ""),
    BuilderOptions(Pem("pkcs8", "RSA", "K1"), "RS256", ShortTtlSeconds, ShopperDid),
    BuilderOptions(Pem("pkcs8", "EC", "K1"), "ES256K", ShortTtlSeconds, ""),
    BuilderOptions(Pem("spki", "RSA", "K1"), "RS256", ShortTtlSeconds, "") }

Verifiers ==
  { VerifyOptions(Pem("spki", "RSA", "K1"), "", ""),
    VerifyOptions(Pem("spki", "RSA", "K1"), "RS256", ShopperDid),
    VerifyOptions(Pem("spki", "RSA", "K2"), "RS256", ""),
    VerifyOptions(Pem("pkcs8", "EC", "K1"), "ES256K", ""),
    VerifyOptions(Pem("spki", "EC", "K1"), "ES256K", ""),
    VerifyOptions(EmptyPem, "", "") }

TotalPath == <<"payment_request", "details", "total", "amount", "value">>
ItemPath == <<"payment_request", "details", "displayItems", "0">>

\* the changes of one field of the contents, by the depth of the field
FieldChanges == {"id", "flag", "detailsId", "total", "itemAmount", "quantity"}
\* other alterations of the mandate
OtherChanges == {"quantityZero", "dropFlag", "addNote", "reorder", "swapHash", "resign", "garble"}

Reverse(q) == [i \in 1..Len(q) |-> q[Len(q) + 1 - i]]

AlterContents(c, kind) ==
  CASE kind = "id" -> SetPath(c, <<"id">>, JStr("cart-2"))
    [] kind = "flag" ->
         SetPath(c, <<"user_signature_required">>,
                 JBool(GetPath(c, <<"user_signature_required">>) = JBool(FALSE)))
    [] kind = "detailsId" -> SetPath(c, <<"payment_request", "details", "id">>, JStr("order-2"))
    [] kind = "total" -> SetPath(c, TotalPath, JStr("0.01"))
    [] kind = "itemAmount" -> SetPath(c, ItemPath \o <<"amount", "value">>, JStr("0.01"))
    [] kind = "quantity" -> SetPath(c, ItemPath \o <<"quantity">>, JNum("2"))
    [] kind = "quantityZero" -> SetPath(c, ItemPath \o <<"quantity">>, JNum("0"))
    [] kind = "dropFlag" -> RemoveMember(c, "user_signature_required")
    [] kind = "addNote" -> AddMember(c, "note", JStr("x"))
    [] kind = "reorder" -> [c EXCEPT !.m = Reverse(c.m)]
    [] kind = "swapHash" -> SetPath(c, TotalPath, JStr("0.01"))
    [] kind = "resign" -> SetPath(c, TotalPath, JStr("0.01"))
    [] OTHER -> c

\* a key no verifier trusts
AttackerKey == "K3"

\* swapHash rewrites the cart_hash claim under the old signature; resign
\* issues a new token for the altered contents with a key of the attacker
AlterToken(jws, newContents, kind) ==
  LET payload == [jws.payload EXCEPT !.cart_hash = cartHash(ZodParse(CartContentsSchema, newContents).v)]
  IN  CASE kind = "swapHash" -> [jws EXCEPT !.payload = payload]
        [] kind = "resign" ->
             Jws(jws.alg, payload,
                 base64urlEncode(SigBytes(AttackerKey, sha256(SigningInput(jws.alg, payload)))))
        [] kind = "garble" -> GarbledJws
        [] OTHER -> jws


BuildCart ==
  /\ cart.stage = "none"
  /\ \E b \in Builders : \E c \in ContentsInputs :
       LET r == CartMandateBuilderBuild(b, c, now)
       IN  cart' = [stage |-> IF r.threw THEN "failed" ELSE "built", builder |-> b,
                    input |-> c, error |-> r.error, built |-> r.mandate, mandate |-> r.mandate,
                    change |-> "none"]
  /\ UNCHANGED <<now, storeOn, nonceStore, runs, cache, uuids, call, payment, signers, issued, didCache, requests, admitted>>

\* the mandate is altered between the merchant and the verifier
AlterCart ==
  /\ cart.stage = "built"
  /\ \E kind \in FieldChanges \cup OtherChanges :
       LET contents == AlterContents(cart.mandate.contents, kind)
       IN  cart' = [cart EXCEPT !.stage = "altered", !.change = kind,
                      !.mandate = Mandate(contents,
                                          AlterToken(cart.mandate.merchant_authorization, contents, kind))]
  /\ UNCHANGED <<now, storeOn, nonceStore, runs, cache, uuids, call, payment, signers, issued, didCache, requests, admitted>>

VerifyCart ==
  /\ cart.stage \in {"built", "altered"}
  /\ \E opts \in Verifiers :
       /\ call' = [op |-> "verifyCartMandate", opts |-> opts, at |-> now,
                   out |-> verifyCartMandate(cart.mandate, opts, now)]
       /\ cart' = [cart EXCEPT !.stage = "verified"]
  /\ UNCHANGED <<now, storeOn, nonceStore, runs, cache, uuids, payment, signers, issued, didCache, requests, admitted>>

NextCart ==
  \/ Tick
  \/ BuildCart
  \/ AlterCart
  \/ VerifyCart

SpecCart == Init /\ [][NextCart]_vars

---------------------------------------------------------------------------
(* Properties of SpecCart *)

CartVerified == cart.stage = "verified" /\ call.op = "verifyCartMandate"
\* the contents as CartContents, members in schema order
AsCartContents(c) == ZodParse(CartContentsSchema, c).v
TokenIntact == cart.mandate.merchant_authorization = cart.built.merchant_authorization
\* the verifier is given the merchant's key for the builder's algorithm (for
\* ES256K in the PKCS#8 form that path reads) and an audience the token has
MatchingVerifier ==
  LET b == cart.builder
      o == call.opts
  IN  /\ o.merchant_public_key_pem.key = b.merchantPrivateKeyPem.key
      /\ o.expected_aud \in {"", b.shopperDid}
      /\ IF b.algorithm = "ES256K"
         THEN o.algorithm = "ES256K" /\ o.merchant_public_key_pem.kind = "pkcs8"
              /\ o.merchant_public_key_pem.type = "EC"
         ELSE o.algorithm \in {"", "RS256"} /\ o.merchant_public_key_pem.kind = "spki"
              /\ o.merchant_public_key_pem.type = "RSA"
JwtStillValid ==
  /\ TokenIntact /\ MatchingVerifier
  /\ call.at \div 1000 < cart.built.merchant_authorization.payload.exp

---------------------------------------------------------------------------
(* Payment mandates: the anp_ap2 models and PaymentMandateBuilder, the     *)
(* v1.0a types, hashes and PaymentBuilder (ap2/), and verifyPaymentMandate *)
(* of anp_ap2/services/verifier.ts                                         *)

PAYMENT_TTL_SECONDS == 15552000
V1_PAYMENT_TTL_SECONDS == 300

SettlementTotalSchema ==
  ZObject(<< Required("label", ZAtom("str")), Required("amount", AssetAmountSchema),
             Optional("refund_period", ZAtom("num")) >>)
PaymentResponseSchema ==
  ZObject(<< Required("request_id", ZAtom("str")), Required("method_name", ZAtom("str")),
             Optional("details", ZAtom("record")) >>)
PaymentMandateContentsSchema ==
  ZObject(<< Required("payment_mandate_id", ZAtom("str")),
             Required("payment_details_id", ZAtom("str")),
             Required("settlement_total", SettlementTotalSchema),
             Required("payment_response", PaymentResponseSchema),
             Optional("merchant_agent", ZAtom("str")),
             Required("timestamp", ZAtom("str")) >>)

\* v1.0a: ap2/types/common.ts and ap2/types/payment.ts
V1_MoneyAmountSchema ==
  ZObject(<< Required("currency", ZAtom("str")), Required("value", ZAtom("num")) >>)
V1_PaymentDetailsTotalSchema ==
  ZObject(<< Required("label", ZAtom("str")), Required("amount", V1_MoneyAmountSchema),
             Optional("refund_period", ZAtom("num")) >>)
V1_PaymentResponseSchema ==
  ZObject(<< Required("request_id", ZAtom("str")),
             Required("method_name", ZLiteral({"QR_CODE"})),
             Required("details",
                      ZObject(<< Required("channel", ZLiteral({"ALIPAY", "WECHAT"})),
                                 Required("out_trade_no", ZAtom("str")) >>)) >>)
V1_PaymentMandateContentsSchema ==
  ZObject(<< Required("payment_mandate_id", ZAtom("str")),
             Required("payment_details_id", ZAtom("str")),
             Required("payment_details_total", V1_PaymentDetailsTotalSchema),
             Required("payment_response", V1_PaymentResponseSchema),
             Required("merchant_agent", ZAtom("str")),
             Required("timestamp", ZAtom("str")) >>)

\* ap2/utils.ts jcs: JSON.stringify(obj, Object.keys(obj).sort())
V1_jcs(obj) == StringifyListed(obj, SortedKeysOf(obj.m))
V1_cartHash(contents) == sha256B64Url(V1_jcs(contents))
V1_paymentMandateHash(contents) == sha256B64Url(V1_jcs(contents))
V1_contentHash(contents) == sha256B64Url(V1_jcs(contents))

PaymentMandate(contents, jws) == [payment_mandate_contents |-> contents, user_authorization |-> jws]
NoPaymentMandate == PaymentMandate(JUndefined, NoJws)

\* kind tells the builder class: "PaymentMandateBuilder" or the v1.0a
\* "PaymentBuilder"; algorithm "" and ttlSeconds 0 stand for options left out
PaymentBuilderOptions(kind, pem, algorithm, ttlSeconds, merchantDid) ==
  [kind |-> kind, userPrivateKeyPem |-> pem, userDid |-> ShopperDid, algorithm |-> algorithm,
   ttlSeconds |-> ttlSeconds, merchantDid |-> merchantDid]

BuildThrew(error) == [threw |-> TRUE, error |-> error, mandate |-> NoPaymentMandate]

\* PaymentMandateBuilder.build with BaseMandateBuilder.sign
PaymentMandateBuilderBuild(opts, contentsInput, cart_hash, t) ==
  LET contents == ZodParse(PaymentMandateContentsSchema, contentsInput)
      algorithm == IF opts.algorithm = "" THEN "RS256" ELSE opts.algorithm
      ttlSeconds == IF opts.ttlSeconds = 0 THEN PAYMENT_TTL_SECONDS ELSE opts.ttlSeconds
      nowS == t \div 1000
      payload == [Claims(cart_hash, opts.userDid, nowS, nowS + ttlSeconds, opts.merchantDid)
                    EXCEPT !.contents = SortedValue(contents.v)]
      jws == signJwtWithAlgorithm(payload, opts.userPrivateKeyPem, algorithm)
  IN  IF ~contents.ok \/ cart_hash = "" THEN BuildThrew("SchemaValidationError")
      ELSE IF jws.threw THEN BuildThrew("MandateBuildError")
      ELSE [threw |-> FALSE, error |-> "none", mandate |-> PaymentMandate(contents.v, jws.jwt)]

\* a string that is not a PEM, and String(object)
TextPem(text) == Pem("text", "", text)
ObjectAsText == "[object Object]"

\* JwtSigner.sign: signJwtWithAlgorithm(privateKeyPem, algorithm, payload,
\* options) against the parameters (payload, privateKeyPem, algorithm,
\* extraHeaders): the callee reads the algorithm name as its PEM and the
\* payload object as its algorithm
JwtSignerSign(signer, payload) ==
  signJwtWithAlgorithm(signer.privateKeyPem, TextPem(signer.algorithm), ObjectAsText)

\* v1.0a PaymentBuilder.build
PaymentBuilderBuild(config, contents, cartHashArg, t) ==
  LET validated == ZodParse(V1_PaymentMandateContentsSchema, contents)
      algorithm == IF config.algorithm = "" THEN "RS256" ELSE config.algorithm
      pmtHash == V1_paymentMandateHash(validated.v)
      payload == [NoClaims EXCEPT !.transaction_data = <<cartHashArg, pmtHash>>]
      jwt == JwtSignerSign([privateKeyPem |-> config.userPrivateKeyPem, algorithm |-> algorithm],
                           payload)
  IN  IF ~validated.ok THEN BuildThrew("ZodError")
      ELSE IF jwt.threw THEN BuildThrew("TypeError")
      ELSE [threw |-> FALSE, error |-> "none", mandate |-> PaymentMandate(validated.v, jwt.jwt)]

PaymentVerifyOptions(pem, algorithm, expected_aud, expected_cart_hash) ==
  [user_public_key_pem |-> pem, algorithm |-> algorithm, expected_aud |-> expected_aud,
   expected_cart_hash |-> expected_cart_hash]

\* variant: the cart hash of the claims is not compared
verifyPaymentMandate_NoCartHash(mandate, opts, t) ==
  LET parsedContents == ZodParse(PaymentMandateContentsSchema, mandate.payment_mandate_contents)
      token == mandate.user_authorization
      algorithm == IF opts.algorithm = "" THEN "RS256" ELSE opts.algorithm
      jwt == verifyJwt_Service(token, opts.user_public_key_pem, algorithm, opts.expected_aud, t)
  IN  IF ~parsedContents.ok \/ token.kind = "none" THEN Thrown("ZodError", FALSE)
      ELSE IF opts.user_public_key_pem.kind = "empty" THEN Thrown("ZodError", FALSE)
      ELSE IF jwt.threw THEN Thrown("MandateVerificationError", FALSE)
      ELSE [threw |-> FALSE, error |-> "none", payload |-> jwt.payload, jwtVerified |-> TRUE]
\* verifyPaymentMandate; expected_aud and expected_cart_hash "" stand for
\* options left out
verifyPaymentMandate(mandate, opts, t) ==
  LET parsedContents == ZodParse(PaymentMandateContentsSchema, mandate.payment_mandate_contents)
      token == mandate.user_authorization
      algorithm == IF opts.algorithm = "" THEN "RS256" ELSE opts.algorithm
      jwt == verifyJwt_Service(token, opts.user_public_key_pem, algorithm, opts.expected_aud, t)
  IN  IF ~parsedContents.ok \/ token.kind = "none" THEN Thrown("ZodError", FALSE)
      ELSE IF opts.user_public_key_pem.kind = "empty" THEN Thrown("ZodError", FALSE)
      ELSE IF jwt.threw THEN Thrown("MandateVerificationError", FALSE)
      ELSE IF opts.expected_cart_hash # "" /\ jwt.payload.cart_hash # opts.expected_cart_hash
      THEN Thrown("CartHashMismatchError", TRUE)
      ELSE [threw |-> FALSE, error |-> "none", payload |-> jwt.payload, jwtVerified |-> TRUE]

---------------------------------------------------------------------------
(* SpecPay: the merchant builds a cart mandate, the shopper verifies it    *)
(* and builds a payment mandate that refers to the cart's hash; the        *)
(* payment mandate is carried, possibly altered on the way, and verified   *)

PaymentTimestamp == toISOString(0)

FullPayment ==
  JObj(<< Mem("payment_mandate_id", JStr("pm-1")), Mem("payment_details_id", JStr("order-1")),
          Mem("settlement_total", JObj(<< Mem("label", JStr("Total")), Mem("amount", Amount("10.00")) >>)),
          Mem("payment_response",
              JObj(<< Mem("request_id", JStr("cart-1")), Mem("method_name", JStr("card")) >>)),
          Mem("timestamp", JStr(PaymentTimestamp)) >>)
V1Payment ==
  JObj(<< Mem("payment_mandate_id", JStr("pm-1")), Mem("payment_details_id", JStr("order-1")),
          Mem("payment_details_total",
              JObj(<< Mem("label", JStr("Total")),
                      Mem("amount", JObj(<< Mem("currency", JStr("CNY")), Mem("value", JNum("10")) >>)) >>)),
          Mem("payment_response",
              JObj(<< Mem("request_id", JStr("cart-1")), Mem("method_name", JStr("QR_CODE")),
                      Mem("details", JObj(<< Mem("channel", JStr("ALIPAY")),
                                             Mem("out_trade_no", JStr("t-1")) >>)) >>)),
          Mem("merchant_agent", JStr("MA")), Mem("timestamp", JStr(PaymentTimestamp)) >>)

PaymentInputs == {FullPayment, V1Payment}

PaymentMandateBuilders ==
  { PaymentBuilderOptions("PaymentMandateBuilder", Pem("pkcs8", "RSA", "K2"), "", 0, ""),
    PaymentBuilderOptions("PaymentMandateBuilder", Pem("pkcs8", "EC", "K2"), "ES256K",
                          ShortTtlSeconds, MerchantDid) }
PaymentBuilders ==
  { PaymentBuilderOptions("PaymentBuilder", Pem("pkcs8", "RSA", "K2"), "", 0, MerchantDid),
    PaymentBuilderOptions("PaymentBuilder", Pem("pkcs8", "EC", "K2"), "ES256K", 0, MerchantDid) }

\* the hash of another cart
OtherHash == cartHash(JObj(<< Mem("id", JStr("cart-0")) >>))
\* H1: the hash the merchant signed for the cart
CartHashOf(c) == c.built.merchant_authorization.payload.cart_hash

PaymentVerifiers(H1) ==
  { PaymentVerifyOptions(Pem("spki", "RSA", "K2"), "", "", e) : e \in {"", H1} }
    \cup { PaymentVerifyOptions(Pem("pkcs8", "EC", "K2"), "ES256K", MerchantDid, e) : e \in {"", H1} }
    \cup { PaymentVerifyOptions(Pem("spki", "EC", "K2"), "ES256K", "", H1),
           PaymentVerifyOptions(Pem("spki", "RSA", "K1"), "RS256", "", H1) }

SettlementPath == <<"settlement_total", "amount", "value">>

\* changes of one field of the payment contents, and other alterations
PaymentFieldChanges == {"total", "method"}
PaymentOtherChanges == {"dropTotal", "swapCartHash"}

AlterPaymentContents(c, kind) ==
  CASE kind = "total" -> SetPath(c, SettlementPath, JStr("1000.00"))
    [] kind = "method" -> SetPath(c, <<"payment_response", "method_name">>, JStr("wire"))
    [] kind = "dropTotal" -> RemoveMember(c, "settlement_total")
    [] OTHER -> c

\* swapCartHash rewrites the cart_hash claim under the old signature
AlterPaymentToken(jws, H1, kind) ==
  IF kind = "swapCartHash"
  THEN [jws EXCEPT !.payload.cart_hash = IF @ = H1 THEN OtherHash ELSE H1]
  ELSE jws

\* the shopper pays for a cart whose mandate it has verified
CartAccepted == cart.stage = "verified" /\ call.op = "verifyCartMandate" /\ ~call.out.threw

PaymentBuilt(b, c, h, r) ==
  [stage |-> IF r.threw THEN "failed" ELSE "built", builder |-> b, input |-> c, cart_hash |-> h,
   error |-> r.error, built |-> r.mandate, mandate |-> r.mandate, change |-> "none",
   opts |-> PaymentVerifyOptions(EmptyPem, "", "", ""), at |-> 0,
   out |-> Thrown("none", FALSE)]

BuildPaymentMandate ==
  /\ payment.stage = "none" /\ CartAccepted
  /\ \E b \in PaymentMandateBuilders : \E c \in PaymentInputs :
       \E h \in {CartHashOf(cart), OtherHash} :
         payment' = PaymentBuilt(b, c, h, PaymentMandateBuilderBuild(b, c, h, now))
  /\ UNCHANGED <<now, storeOn, nonceStore, runs, cache, uuids, call, cart, signers, issued, didCache, requests, admitted>>

BuildPaymentV1 ==
  /\ payment.stage = "none" /\ CartAccepted
  /\ \E b \in PaymentBuilders : \E c \in PaymentInputs :
       payment' = PaymentBuilt(b, c, CartHashOf(cart), PaymentBuilderBuild(b, c, CartHashOf(cart), now))
  /\ UNCHANGED <<now, storeOn, nonceStore, runs, cache, uuids, call, cart, signers, issued, didCache, requests, admitted>>

AlterPayment ==
  /\ payment.stage = "built"
  /\ \E kind \in PaymentFieldChanges \cup PaymentOtherChanges :
       payment' = [payment EXCEPT !.stage = "altered", !.change = kind,
                     !.mandate = PaymentMandate(
                        AlterPaymentContents(payment.mandate.payment_mandate_contents, kind),
                        AlterPaymentToken(payment.mandate.user_authorization, CartHashOf(cart), kind))]
  /\ UNCHANGED <<now, storeOn, nonceStore, runs, cache, uuids, call, cart, signers, issued, didCache, requests, admitted>>

VerifyPayment ==
  /\ payment.stage \in {"built", "altered"}
  /\ \E opts \in PaymentVerifiers(CartHashOf(cart)) :
       payment' = [payment EXCEPT !.stage = "verified", !.opts = opts, !.at = now,
                     !.out = verifyPaymentMandate(payment.mandate, opts, now)]
  /\ UNCHANGED <<now, storeOn, nonceStore, runs, cache, uuids, call, cart, signers, issued, didCache, requests, admitted>>

NextPay ==
  \/ Tick
  \/ BuildCart
  \/ VerifyCart
  \/ BuildPaymentMandate
  \/ BuildPaymentV1
  \/ AlterPayment
  \/ VerifyPayment

SpecPay == Init /\ [][NextPay]_vars

---------------------------------------------------------------------------
(* Properties of SpecPay *)

PaymentVerified == payment.stage = "verified"
AsPaymentContents(c) == ZodParse(PaymentMandateContentsSchema, c).v
PaymentTokenIntact == payment.mandate.user_authorization = payment.built.user_authorization
\* the algorithm a builder or verifier uses, RS256 when left out
AlgorithmOf(o) == IF o.algorithm = "" THEN "RS256" ELSE o.algorithm
\* the verifier is given the user's key for the builder's algorithm, in the
\* form the verification path of that algorithm reads, and an audience the
\* token has
PaymentMatchingVerifier ==
  LET b == payment.builder
      o == payment.opts
  IN  /\ o.user_public_key_pem.key = b.userPrivateKeyPem.key
      /\ o.expected_aud \in {"", b.merchantDid}
      /\ AlgorithmOf(o) = AlgorithmOf(b)
      /\ IF AlgorithmOf(b) = "ES256K"
         THEN o.user_public_key_pem.kind = "pkcs8" /\ o.user_public_key_pem.type = "EC"
         ELSE o.user_public_key_pem.kind = "spki" /\ o.user_public_key_pem.type = "RSA"
PaymentJwtStillValid ==
  /\ PaymentTokenIntact /\ PaymentMatchingVerifier
  /\ payment.at \div 1000 < payment.built.user_authorization.payload.exp

\* digest(JCS(v)) with the RFC 8785 form
DigestJcs(v) == sha256B64Url(jcs(v))

\* the payment hash the signed claims bind: transaction_data[1], or, for
\* claims that carry the contents themselves, the hash of those contents
BoundPaymentHash(payload) ==
  IF Len(payload.transaction_data) = 2 THEN payload.transaction_data[2]
  ELSE DigestJcs(payload.contents)
\* the cart hash the signed claims bind: cart_hash, or transaction_data[0]
BoundCartHash(payload) ==
  IF payload.cart_hash # "" THEN payload.cart_hash
  ELSE IF Len(payload.transaction_data) = 2 THEN payload.transaction_data[1]
  ELSE ""

\* C11: every payment mandate verifyPaymentMandate accepts carries claims
\* whose payment hash is the hash of the payment_mandate_contents as
\* presented: contents altered after signing are never accepted.
C11_PaymentHashChecked ==
  (PaymentVerified /\ ~payment.out.threw) =>
    /\ BoundPaymentHash(payment.out.payload)
         = DigestJcs(AsPaymentContents(payment.mandate.payment_mandate_contents))
    /\ AsPaymentContents(payment.mandate.payment_mandate_contents)
         = AsPaymentContents(payment.built.payment_mandate_contents)

\* the contents the builder class of b takes
ValidInputFor(b, c) ==
  IF b.kind = "PaymentBuilder" THEN ZodParse(V1_PaymentMandateContentsSchema, c).ok
  ELSE ZodParse(PaymentMandateContentsSchema, c).ok
\* the verifier holds the public key of the user's key pair, for the
\* builder's algorithm
MatchingPublicKey ==
  LET b == payment.builder
      o == payment.opts
  IN  /\ o.user_public_key_pem.key = b.userPrivateKeyPem.key
      /\ o.user_public_key_pem.type = b.userPrivateKeyPem.type
      /\ o.user_public_key_pem.kind = "spki"
      /\ AlgorithmOf(o) = AlgorithmOf(b)
      /\ o.expected_aud \in {"", b.merchantDid}

\* C12: a cart mandate over contents C with hash H1 verifies, and a payment
\* mandate built by PaymentMandateBuilder or by the v1.0a PaymentBuilder
\* over valid contents and H1 is built and, carried unchanged, verifies
\* with expected cart hash H1, the tokens unexpired and the keys matching.
C12_ChainVerifies ==
  /\ (CartAccepted /\ payment.stage = "failed" /\ payment.cart_hash = CartHashOf(cart))
       => ~ValidInputFor(payment.builder, payment.input)
  /\ (CartAccepted /\ PaymentVerified /\ payment.cart_hash = CartHashOf(cart)
         /\ payment.change = "none" /\ MatchingPublicKey
         /\ payment.opts.expected_cart_hash = CartHashOf(cart)
         /\ payment.at \div 1000 < payment.built.user_authorization.payload.exp)
       => ~payment.out.threw

---------------------------------------------------------------------------
(* SpecJcs: the two canonicalisations and the hashes over them, applied to *)
(* a pair of JSON values                                                   *)

JsonValues ==
  { FullContents, SparseContents, BadContents, FullPayment, V1Payment, CartDetails,
    Amount("10.00"), Amount("0.01"), JStr("cart-1"), JNum("10"),
    JArr(<< Amount("10.00") >>), JArr(<< Amount("0.01") >>) }
    \cup { AlterContents(FullContents, kind) : kind \in {"id", "total", "quantity", "reorder"} }

HashValues ==
  /\ call = NoCall
  /\ \E v \in JsonValues : \E w \in JsonValues :
       call' = [op |-> "jcs", v |-> v, w |-> w,
                jcs |-> <<jcs(v), jcs(w)>>, v1_jcs |-> <<V1_jcs(v), V1_jcs(w)>>,
                cartHash |-> <<cartHash(v), cartHash(w)>>,
                v1_hashes |-> << <<V1_cartHash(v), V1_paymentMandateHash(v), V1_contentHash(v)>>,
                                 <<V1_cartHash(w), V1_paymentMandateHash(w), V1_contentHash(w)>> >>]
  /\ UNCHANGED <<now, storeOn, nonceStore, runs, cache, uuids, cart, payment, signers, issued, didCache, requests, admitted>>

NextJcs == HashValues

SpecJcs == Init /\ [][NextJcs]_vars

Hashed == call.op = "jcs"
\* equal as JSON values: the same members and elements, in whatever order
\* the members were inserted
DeepEqual(v, w) == SortedValue(v) = SortedValue(w)

\* C14: the jcs of the v1.0a utility module gives, for every JSON value,
\* the RFC 8785 form that the canonicalize-based jcs gives, so that the
\* hashes of the two modules agree and values that are not deep-equal get
\* different hashes.
C14_OneCanonicalForm ==
  Hashed =>
    /\ call.v1_jcs[1] = call.jcs[1]
    /\ \A i \in 1..3 : call.v1_hashes[1][i] = call.cartHash[1]
    /\ ~DeepEqual(call.v, call.w) =>
         /\ call.cartHash[1] # call.cartHash[2]
         /\ \A i \in 1..3 : call.v1_hashes[1][i] # call.v1_hashes[2][i]

---------------------------------------------------------------------------
(* SpecJwt: verifyJwtWithAlgorithm on tokens made by signJwtWithAlgorithm, *)
(* with time                                                               *)

Merchant1 == "merchant-1"
\* the aud claim of a token and the audience option of a verification
AudClaims == {JUndefined, JStr(Merchant1), JStr("merchant-2"), JArr(<<JStr("merchant-0"), JStr(Merchant1)>>)}
AudienceOptions ==
  {JUndefined, JStr(""), JStr(Merchant1), JStr("merchant-3"),
   JArr(<<JStr("merchant-3"), JStr(Merchant1)>>), JArr(<< >>)}
\* exp and nbf in seconds
ExpClaims == {NoTime, 0} \cup {t \div 1000 : t \in Times \ {0}}
NbfClaims == {NoTime, 0, TIMESTAMP_MAX_SKEW_MS \div 1000}

JwtPayloads ==
  { [Claims("h1", ShopperDid, 0, exp, "") EXCEPT !.aud = aud, !.nbf = nbf] :
      exp \in ExpClaims, nbf \in NbfClaims, aud \in AudClaims }

KeyType(algorithm) == IF algorithm = "ES256K" THEN "EC" ELSE "RSA"

\* the tokens of the signer K1, and one signed by another key
JwtTokens ==
  { signJwtWithAlgorithm(p, Pem("pkcs8", KeyType(a), "K1"), a).jwt :
      p \in JwtPayloads, a \in {"RS256", "ES256K"} }
    \cup { signJwtWithAlgorithm(Claims("h1", ShopperDid, 0, NoTime, Merchant1),
                                Pem("pkcs8", "EC", "K2"), "ES256K").jwt,
           GarbledJws }

\* the key of K1 in the PEM forms a caller may hold
VerificationKeys(algorithm) ==
  { Pem(kind, KeyType(algorithm), "K1") : kind \in {"spki", "pkcs8"} }

VerifyJwtWithAlgorithm ==
  /\ call = NoCall
  /\ \E token \in JwtTokens : \E algorithm \in {"RS256", "ES256K"} :
       \E pem \in VerificationKeys(algorithm) : \E audience \in AudienceOptions :
         call' = [op |-> "verifyJwtWithAlgorithm", token |-> token, publicKeyPem |-> pem,
                  algorithm |-> algorithm, audience |-> audience, at |-> now,
                  out |-> verifyJwtWithAlgorithm(token, pem, algorithm, audience, now)]
  /\ UNCHANGED <<now, storeOn, nonceStore, runs, cache, uuids, cart, payment, signers, issued, didCache, requests, admitted>>

NextJwt ==
  \/ Tick
  \/ VerifyJwtWithAlgorithm

SpecJwt == Init /\ [][NextJwt]_vars

---------------------------------------------------------------------------
(* Properties of SpecJwt *)

JwtChecked == call.op = "verifyJwtWithAlgorithm"
\* the token is one of K1's, presented for its own algorithm with K1's key
\* in the form that algorithm's path reads
WellSignedJwt ==
  /\ call.token \in { signJwtWithAlgorithm(p, Pem("pkcs8", KeyType(a), "K1"), a).jwt :
                         p \in JwtPayloads, a \in {call.algorithm} }
  /\ call.publicKeyPem.kind = IF call.algorithm = "ES256K" THEN "pkcs8" ELSE "spki"
\* no audience is asked for, or one of the token's
AudienceMet ==
  \/ call.audience = JUndefined
  \/ StringsOf(call.audience) \cap StringsOf(call.token.payload.aud) # {}

\* C15: a token whose exp is before now, or whose nbf is after now, is
\* rejected, for every numeric exp and nbf, 0 included, and whatever
\* audience is passed; a token with now <= exp and now >= nbf is not
\* rejected on time grounds.
C15_TimeClaims ==
  JwtChecked =>
    LET p == call.token.payload
        nowS == call.at \div 1000
    IN  /\ (p.exp # NoTime /\ nowS > p.exp) => call.out.threw
        /\ (p.nbf # NoTime /\ nowS < p.nbf) => call.out.threw
        /\ ( /\ WellSignedJwt /\ AudienceMet
             /\ (p.exp # NoTime => nowS <= p.exp)
             /\ (p.nbf # NoTime => nowS >= p.nbf) ) => ~call.out.threw

\* C16: an ES256K token with an aud claim, verified with an audience, is
\* accepted only if the audience given shares a member with the claim;
\* with any other audience it fails with "Audience mismatch".
C16_AudienceChecked ==
  ( /\ JwtChecked /\ call.algorithm = "ES256K" /\ call.token.kind = "jws"
    /\ call.token.payload.aud # JUndefined /\ Truthy(call.audience) ) =>
    LET p == call.token.payload
        nowS == call.at \div 1000
        shared == StringsOf(call.audience) \cap StringsOf(p.aud)
    IN  /\ ~call.out.threw => shared # {}
        /\ ( /\ WellSignedJwt /\ shared = {}
             /\ ~Es256kExpired(p, nowS) /\ ~Es256kNotYetValid(p, nowS) )
             => (call.out.threw /\ call.out.error = "Audience mismatch")

\* a token for an array of audiences, refused for an audience not in it
C16_Witness ==
  /\ JwtChecked /\ call.algorithm = "ES256K" /\ WellSignedJwt
  /\ call.token.payload.aud.t = "arr" /\ call.audience = JStr("merchant-3")
  /\ call.out.error = "Audience mismatch"

---------------------------------------------------------------------------
(* core/crypto.ts: exportSecp256k1PrivateKeyToPem writes the SEC1          *)
(* ECPrivateKey structure under the label BEGIN EC PRIVATE KEY; the import *)
(* reads PKCS#8 under the label BEGIN PRIVATE KEY.                         *)

exportSecp256k1PrivateKeyToPem(priv) == Pem("sec1", "EC", priv)

\* the same scalar wrapped as PKCS#8 by another tool (openssl pkcs8 -topk8)
Pkcs8Of(priv) == Pem("pkcs8", "EC", priv)

ExportKey ==
  /\ call = NoCall
  /\ \E priv \in Keys :
       call' = [op |-> "exportSecp256k1PrivateKeyToPem", priv |-> priv,
                pem |-> exportSecp256k1PrivateKeyToPem(priv)]
  /\ UNCHANGED <<now, storeOn, nonceStore, runs, cache, uuids, cart, payment, signers, issued, didCache, requests, admitted>>

ImportKey ==
  /\ call.op = "exportSecp256k1PrivateKeyToPem"
  /\ \E pem \in {call.pem, Pkcs8Of(call.priv)} :
       call' = [op |-> "importSecp256k1PrivateKeyFromPem", priv |-> call.priv, pem |-> pem,
                out |-> importSecp256k1PrivateKeyFromPem(pem)]
  /\ UNCHANGED <<now, storeOn, nonceStore, runs, cache, uuids, cart, payment, signers, issued, didCache, requests, admitted>>

\* the exported PEM handed to the ES256K signer, which imports it
SignWithPem ==
  /\ call.op = "exportSecp256k1PrivateKeyToPem"
  /\ \E pem \in {call.pem, Pkcs8Of(call.priv)} : \E payload \in JwtPayloads :
       call' = [op |-> "signJwtWithAlgorithm", priv |-> call.priv, pem |-> pem,
                payload |-> payload,
                out |-> signJwtWithAlgorithm(payload, pem, "ES256K")]
  /\ UNCHANGED <<now, storeOn, nonceStore, runs, cache, uuids, cart, payment, signers, issued, didCache, requests, admitted>>

NextPem ==
  \/ ExportKey
  \/ ImportKey
  \/ SignWithPem

SpecPem == Init /\ [][NextPem]_vars

\* C17: importing the PEM that exportSecp256k1PrivateKeyToPem wrote for a
\* scalar succeeds and yields that scalar with the public point derived from it.
C17_ExportImportRoundTrip ==
  ( /\ call.op = "importSecp256k1PrivateKeyFromPem"
    /\ call.pem = exportSecp256k1PrivateKeyToPem(call.priv) ) =>
    /\ ~call.out.threw
    /\ call.out.jwk = PrivateJwk(call.priv)

---------------------------------------------------------------------------
(* Authenticator.signRequest step by step: from the call to the await of   *)
(* signSecp256k1 (cache.get, nonce, timestamp), and from the await to the  *)
(* return (cache.set, header).  Other callers run in between.              *)

MaxIssued == 3    \* headers returned by the Authenticator

\* the instants of the signer's clock around the header TTL
SignerInstants ==
  {0, HEADER_CACHE_TTL_MS \div 2, HEADER_CACHE_TTL_MS, HEADER_CACHE_TTL_MS + 1,
   HEADER_CACHE_TTL_MS + HEADER_CACHE_TTL_MS \div 2 + 1}

Elapse ==
  /\ \E t \in SignerInstants : t > now /\ now' = t
  /\ UNCHANGED <<storeOn, nonceStore, runs, cache, uuids, call, cart, payment, signers, issued, didCache, requests, admitted>>

\* the callers ask for one URL under either method
SignerUrl == "https://svc.example/orders"

Signing == { p \in Callers : signers[p].pc = "signing" }

\* the header string built after signSecp256k1 resolved
SignedHeader(url, nonce, timestamp) ==
  LET payload == JObj(<< Mem("nonce", JStr(nonce)), Mem("timestamp", JStr(timestamp)),
                         Mem("service", JStr(UrlHost(url))), Mem("did", JStr(AuthDid)) >>)
      sigBytes == signSecp256k1(AuthKey, canonicalize(payload))
  IN  MkHeader(AuthHead, AuthDid, nonce, timestamp, AuthVerificationMethod,
               base64urlEncode(sigBytes.bytes))

Returned(p, url, method, header, seen, began, fresh) ==
  [caller |-> p, url |-> url, method |-> method, header |-> header,
   seen |-> seen, began |-> began, at |-> now, fresh |-> fresh]

\* the call up to the await: a cached header is returned at once
SignBegin(p) ==
  /\ signers[p].pc = "idle"
  /\ Len(issued) + Cardinality(Signing) < MaxIssued
  /\ \E url \in {SignerUrl} : \E method \in Methods :
       LET cacheKey == method \o " " \o url
           cached == CacheGet(cache, cacheKey, now)
       IN  /\ cache' = cached.cache
           /\ IF cached.hit
              THEN /\ issued' = Append(issued, Returned(p, url, method, cached.value,
                                                        Len(issued), now, FALSE))
                   /\ UNCHANGED <<signers, uuids>>
              ELSE /\ uuids < MaxUuids
                   /\ uuids' = uuids + 1
                   /\ signers' = [signers EXCEPT ![p] =
                                    [pc |-> "signing", url |-> url, method |-> method,
                                     nonce |-> randomUUID(uuids + 1),
                                     timestamp |-> toISOString(now),
                                     seen |-> Len(issued), began |-> now]]
                   /\ UNCHANGED issued
  /\ UNCHANGED <<now, storeOn, nonceStore, runs, call, cart, payment, didCache, requests, admitted>>

\* signSecp256k1 resolved: cache.set(cacheKey, header, {ttl: 30_000}), return
SignEnd(p) ==
  /\ signers[p].pc = "signing"
  /\ LET c == signers[p]
         header == SignedHeader(c.url, c.nonce, c.timestamp)
     IN  /\ cache' = CacheSet(cache, c.method \o " " \o c.url, header, HEADER_CACHE_TTL_MS, now)
         /\ issued' = Append(issued, Returned(p, c.url, c.method, header, c.seen, c.began, TRUE))
  /\ signers' = [signers EXCEPT ![p] = IdleSigner]
  /\ UNCHANGED <<now, storeOn, nonceStore, runs, uuids, call, cart, payment, didCache, requests, admitted>>

NextSigner ==
  \/ Elapse
  \/ \E p \in Callers : SignBegin(p)
  \/ \E p \in Callers : SignEnd(p)

SpecSigner == Init /\ [][NextSigner]_vars

---------------------------------------------------------------------------
(* Properties of SpecSigner *)

SameRequest(a, b) == a.url = b.url /\ a.method = b.method
\* the call of issued[j] was made after issued[i] had been returned
CalledAfter(j, i) == issued[j].seen >= i
ExpiryOf(a) == a.at + HEADER_CACHE_TTL_MS

\* C18: while the 30 s TTL of a freshly signed header runs, each further call
\* for the same (method, url) returns that header verbatim and signs nothing;
\* the first call after the TTL returns a fresh header with a new nonce and a
\* new timestamp.
C18_CachedWithinTtl ==
  \A i, j \in 1..Len(issued) :
    (issued[i].fresh /\ CalledAfter(j, i) /\ SameRequest(issued[i], issued[j])) =>
      LET a == issued[i]
          b == issued[j]
          first == \A k \in (i + 1)..(j - 1) :
                     ~(SameRequest(a, issued[k]) /\ CalledAfter(k, i)
                       /\ issued[k].began > ExpiryOf(a))
      IN  /\ b.began <= ExpiryOf(a) => (b.header = a.header /\ ~b.fresh)
          /\ (b.began > ExpiryOf(a) /\ first) =>
               /\ b.fresh
               /\ PartOf(b.header, "nonce") # PartOf(a.header, "nonce")
               /\ PartOf(b.header, "timestamp") # PartOf(a.header, "timestamp")

\* what the header carries for the Verifier's nonce key `${did}:${nonce}`
CarriedBy(header) == [did |-> PartOf(header, "did"), nonce |-> PartOf(header, "nonce")]

\* the Verifier's nonce step (nonceStore.has, then set) on each request in
\* turn, every request sent when its header was returned
RECURSIVE ConsumeNonces(_, _)
ConsumeNonces(q, store) ==
  IF q = << >> THEN << >>
  ELSE LET parsed == CarriedBy(Head(q).header)
           used == StoreHas(store, NonceKey(parsed), Head(q).at)
           step == VerifyAfterHas(parsed, used, Head(q).at, store)
       IN  <<step.result>> \o ConsumeNonces(Tail(q), step.store)

\* C19: the headers returned by successive calls never carry the same
\* (did, nonce) twice, and a Verifier with a nonce store rejects none of the
\* requests that carry them as nonce_reused.
C19_NonceOncePerRequest ==
  /\ \A i, j \in 1..Len(issued) :
       i < j => CarriedBy(issued[i].header) # CarriedBy(issued[j].header)
  /\ LET results == ConsumeNonces(issued, << >>)
     IN  \A i \in 1..Len(results) : results[i] # Fail("nonce_reused")

\* C20: of two calls for the same (method, url) that are in flight together
\* within the TTL window at most one signs, and both return the same header.
C20_SingleSigning ==
  \A i, j \in 1..Len(issued) :
    ( /\ i < j /\ ~CalledAfter(j, i)
      /\ SameRequest(issued[i], issued[j])
      /\ Abs(issued[i].began - issued[j].began) <= HEADER_CACHE_TTL_MS ) =>
      /\ issued[i].header = issued[j].header
      /\ ~(issued[i].fresh /\ issued[j].fresh)

---------------------------------------------------------------------------
(* anp_ap2/errors.ts: the error classes, and the errors verifyCartMandate  *)
(* lets out                                                                *)

\* the class each error class extends
ErrorParent(class) ==
  CASE class \in {"CartHashMismatchError", "JwtVerificationError"} -> "MandateVerificationError"
    [] class \in {"MandateVerificationError", "JwtSigningError", "SchemaValidationError",
                  "InvalidKeyError", "MandateBuildError"} -> "AP2Error"
    [] OTHER -> "Error"

\* error instanceof class
InstanceOf(error, class) ==
  \/ error = class
  \/ ErrorParent(error) = class
  \/ ErrorParent(ErrorParent(error)) = class
  \/ class = "Error"

\* the supplied PEM is not a public key of the algorithm
PublicKeyInvalid(pem, algorithm) ==
  IF algorithm = "ES256K" THEN importSecp256k1PrivateKeyFromPem(pem).threw
  ELSE importSPKI(pem).threw

\* C21: verifyCartMandate throws an InvalidKeyError when the supplied public
\* key is invalid, a JwtVerificationError when the JWT verification fails
\* otherwise, and a CartHashMismatchError when the cart hash does not match.
C21_DocumentedErrors ==
  (call.op = "verifyCartMandate" /\ call.out.threw /\ call.out.error # "ZodError") =>
    LET algorithm == IF call.opts.algorithm = "" THEN "RS256" ELSE call.opts.algorithm
        pem == call.opts.merchant_public_key_pem
        jwt == verifyJwt_Service(cart.mandate.merchant_authorization, pem, algorithm,
                                 call.opts.expected_aud, call.at)
    IN  /\ (jwt.threw /\ PublicKeyInvalid(pem, algorithm)) =>
             InstanceOf(call.out.error, "InvalidKeyError")
        /\ (jwt.threw /\ ~PublicKeyInvalid(pem, algorithm)) =>
             InstanceOf(call.out.error, "JwtVerificationError")
        /\ ~jwt.threw => InstanceOf(call.out.error, "CartHashMismatchError")

---------------------------------------------------------------------------
(* SpecParse: parseAuthHeader on headers whose pairs come in every order,  *)
(* with a field left out or empty, or with a pair more                     *)

FieldOrder == <<"did", "nonce", "timestamp", "verification_method", "signature">>

FieldValue(f) ==
  CASE f = "did" -> DidA
    [] f = "nonce" -> "n1"
    [] f = "timestamp" -> Ts300
    [] f = "verification_method" -> <<DidA, "keys-1">>
    [] OTHER -> SigChoice("good", DidA, "n1", Ts300)

\* the value of the pair f=""
EmptyValue(f) ==
  CASE f = "verification_method" -> << >>
    [] f = "signature" -> EmptyB64
    [] OTHER -> ""

Orders == { p \in [1..Len(FieldOrder) -> 1..Len(FieldOrder)] :
              \A i, j \in 1..Len(FieldOrder) : p[i] = p[j] => i = j }

PartsIn(p) == [i \in 1..Len(FieldOrder) |-> Part(FieldOrder[p[i]], FieldValue(FieldOrder[p[i]]))]

RECURSIVE Without(_, _)
Without(parts, f) ==
  IF parts = << >> THEN << >>
  ELSE IF Head(parts).k = f THEN Tail(parts)
  ELSE <<Head(parts)>> \o Without(Tail(parts), f)

\* a pair under a key the format does not name, and a part without "="
UnknownPair == Part("realm", "orders")
BarePart == [k |-> "preemptive", v |-> "", eq |-> FALSE]

PartsVariants(parts) ==
  {parts, <<UnknownPair>> \o parts, parts \o <<UnknownPair>>, parts \o <<BarePart>>}
    \cup { Without(parts, f) : f \in HeaderFields }
    \cup { [i \in 1..Len(parts) |-> IF parts[i].k = f THEN Part(f, EmptyValue(f)) ELSE parts[i]] :
             f \in HeaderFields }

ParsedHeaders ==
  { [head |-> SpecHead, parts |-> q, token |-> NoToken] :
      q \in UNION { PartsVariants(PartsIn(p)) : p \in Orders } }

\* verifyDidWbaHeader up to the parse: null means invalid_header_format
ParseAuthHeader ==
  /\ call = NoCall
  /\ \E header \in ParsedHeaders :
       LET parsed == parseAuthHeader(header)
       IN  call' = [op |-> "parseAuthHeader", header |-> header, out |-> parsed,
                    result |-> IF parsed.ok THEN Pending ELSE Fail("invalid_header_format")]
  /\ UNCHANGED <<now, storeOn, nonceStore, runs, cache, uuids, cart, payment, signers, issued, didCache, requests, admitted>>

NextParse == ParseAuthHeader

SpecParse == Init /\ [][NextParse]_vars

\* the header has a non-empty pair for the field
Given(header, f) ==
  \E i \in 1..Len(header.parts) :
    header.parts[i].eq /\ header.parts[i].k = f /\ header.parts[i].v # EmptyValue(f)

\* C22: whatever the order of the pairs and whatever pairs with other keys
\* the header carries, parsing fails with invalid_header_format exactly when
\* one of the five fields is missing or empty.
C22_ParseOrderAndUnknownKeys ==
  call.op = "parseAuthHeader" =>
    ( call.result = Fail("invalid_header_format")
        <=> \E f \in HeaderFields : ~Given(call.header, f) )

---------------------------------------------------------------------------
(* SpecVm: the try block of verifyDidWbaHeader on resolved documents with  *)
(* up to two verification methods                                          *)

OtherDid == "did:wba:a:b"

\* ids: did#keys-1, #keys-1 (bare), did#keys-2, and keys-1 of another DID
VmIds == { <<DidA, "keys-1">>, <<"", "keys-1">>, <<DidA, "keys-2">>, <<OtherDid, "keys-1">> }

ListedVms ==
  { Vm(id, type, Jwk("K1")) :
      id \in VmIds, type \in VmTypes \cup {"Ed25519VerificationKey2020"} }

VmDocs ==
  { Doc(DidA, << >>) } \cup { Doc(DidA, <<m>>) : m \in ListedVms }
    \cup { Doc(DidA, <<m, n>>) : m \in ListedVms, n \in ListedVms }

VerifyWithDocument ==
  /\ call = NoCall
  /\ \E didDoc \in VmDocs : \E header \in {WbaHeader("n1", Ts300, "good")} :
       LET parsed == parseAuthHeader(header).out
       IN  call' = [op |-> "verifyDidWbaHeader", parsed |-> parsed, didDoc |-> didDoc,
                    found |-> FindVm(didDoc, parsed.verification_method),
                    out |-> VerifyResolved(parsed, Service, [threw |-> FALSE, doc |-> didDoc])]
  /\ UNCHANGED <<now, storeOn, nonceStore, runs, cache, uuids, cart, payment, signers, issued, didCache, requests, admitted>>

NextVm == VerifyWithDocument

SpecVm == Init /\ [][NextVm]_vars

\* the method's id is the header's verification_method, as it stands or,
\* for a bare fragment, qualified with the document's id
IdMatches(didDoc, m, vmRef) ==
  \/ m.id = vmRef
  \/ m.id[1] = "" /\ <<didDoc.id, m.id[2]>> = vmRef

Suitable(didDoc, m, vmRef) == IdMatches(didDoc, m, vmRef) /\ m.type \in VmTypes

\* C23: when the document has a method with a matching id and one of the two
\* secp256k1 types, the signature is checked with such a method; vm_not_found
\* is returned only when the document has no such method.
C23_SuitableMethodUsed ==
  call.op = "verifyDidWbaHeader" =>
    LET vms == call.didDoc.verificationMethod
        vmRef == call.parsed.verification_method
        some == \E i \in 1..Len(vms) : Suitable(call.didDoc, vms[i], vmRef)
    IN  /\ some => ( /\ call.out.result.code # "vm_not_found"
                     /\ call.found # 0
                     /\ vms[call.found].type \in VmTypes )
        /\ call.out.result.code = "vm_not_found" => ~some

---------------------------------------------------------------------------
(* The verification_method of the Authenticator's headers (SpecAuth) *)

\* C24: in every header the Authenticator returns, verification_method is the
\* header's own did followed by "#keys-1".
C24_VerificationMethodOfDid ==
  call.op = "signRequest" =>
    PartOf(call.header, "verification_method") = <<PartOf(call.header, "did"), "keys-1">>

---------------------------------------------------------------------------
(* The writes of the nonce store (Spec) *)

NonceSet(r) == HasStep(r, "nonce.set")
LateCodes == {"verification_failed", "vm_not_found", "invalid_signature"}
EarlyCodes == {"invalid_header_format", "invalid_timestamp"}
StepIndex(r, step) == CHOOSE i \in 1..Len(runs[r].steps) : runs[r].steps[i] = step

\* C25: with a nonce store, a run writes (did, nonce) exactly when it passed
\* the timestamp check and found the nonce absent, and it does so before the
\* resolution; the entry stays when the run is rejected later, and the next
\* request with that (did, nonce) is answered nonce_reused; runs rejected for
\* the header format or the timestamp write nothing.
C25_NonceWrittenBeforeVerification ==
  storeOn =>
    /\ DOMAIN nonceStore = { NonceKey(ParsedOf(r).out) : r \in { q \in Runs : NonceSet(q) } }
    /\ \A r \in Runs :
         /\ Done(r) => ( NonceSet(r) <=>
                           (ParsedOf(r).ok /\ FreshAtStart(r) /\ ~runs[r].used) )
         /\ (NonceSet(r) /\ HasStep(r, "resolve")) =>
              StepIndex(r, "nonce.set") < StepIndex(r, "resolve")
         /\ (Done(r) /\ runs[r].result.code \in EarlyCodes) => ~NonceSet(r)
         /\ \A q \in Runs :
              ( /\ q # r /\ Done(q) /\ runs[q].result.code \in LateCodes
                /\ Sequential(q, r) /\ Done(r) /\ SameDidNonce(q, r) /\ FreshAtStart(r)
                /\ runs[r].startAt - runs[q].startAt <= NONCE_TTL_MS )
                => runs[r].result = Fail("nonce_reused")

\* a rejected run's nonce turns the next request away; nothing was accepted
C25_Witness ==
  \E q \in Runs : \E r \in Runs :
    /\ storeOn /\ q # r /\ Sequential(q, r) /\ SameDidNonce(q, r)
    /\ Done(q) /\ runs[q].result = Fail("invalid_signature")
    /\ Done(r) /\ runs[r].result = Fail("nonce_reused")
    /\ NonceKey(ParsedOf(q).out) \in DOMAIN nonceStore

\* C26: a run is rejected as nonce_reused only if another request carried the
\* same did and the same nonce, and two distinct (did, nonce) pairs have
\* distinct nonce-store keys.
C26_NonceKeyPerPair ==
  \A r \in Runs :
    /\ (Done(r) /\ runs[r].result = Fail("nonce_reused")) =>
         \E q \in Runs \ {r} : Started(q) /\ SameDidNonce(q, r)
    /\ \A q \in Runs :
         ( /\ Started(q) /\ Started(r) /\ ParsedOf(q).ok /\ ParsedOf(r).ok
           /\ NonceKey(ParsedOf(q).out) = NonceKey(ParsedOf(r).out) ) => SameDidNonce(q, r)

---------------------------------------------------------------------------
(* client/authenticator.ts and client/verifier.ts: the DidWba header over  *)
(* method, url, timestamp and body                                         *)

ClientHead == <<"DidWba", " ">>
ClientDid == DidA
ClientKey == PrivateJwk("K1")

toUpperCase(method) == IF method = "post" THEN "POST" ELSE method

\* body ?? null
OrNull(body) == IF body = JUndefined THEN JNull ELSE body

ClientMessage(method, url, timestamp, body) ==
  JObj(<< Mem("method", JStr(toUpperCase(method))), Mem("url", JStr(url)),
          Mem("timestamp", JStr(timestamp)), Mem("body", OrNull(body)) >>)

ClientHeader(did, sig, ts) ==
  [head |-> ClientHead, parts |-> << Part("did", did), Part("sig", sig), Part("ts", ts) >>,
   token |-> NoToken]

\* Authenticator.createAuthHeader: the cache (a Map, nothing expires) is
\* keyed by `${method}:${url}:${timestamp}`
createAuthHeader(method, url, body, t, c) ==
  LET timestamp == toISOString(t)
      cacheKey == method \o ":" \o url \o ":" \o timestamp
      canonical == canonicalize(ClientMessage(method, url, timestamp, body))
      signature == signSecp256k1(ClientKey, canonical)
      header == ClientHeader(ClientDid, base64urlEncode(signature.bytes), timestamp)
  IN  IF cacheKey \in DOMAIN c
      THEN [header |-> c[cacheKey].value, cache |-> c, fresh |-> FALSE]
      ELSE [header |-> header, cache |-> CacheSet(c, cacheKey, header, 0, t), fresh |-> TRUE]

\* Verifier.parseAuthHeader: /DidWba\s+did="([^"]+)",\s*sig="([^"]+)",\s*ts="([^"]+)"/
ClientParseAuthHeader(header) ==
  IF /\ header.head = ClientHead
     /\ Len(header.parts) >= 3
     /\ header.parts[1].k = "did" /\ header.parts[1].v # ""
     /\ header.parts[2].k = "sig" /\ header.parts[2].v.kind # "empty"
     /\ header.parts[3].k = "ts" /\ header.parts[3].v # ""
  THEN [ok |-> TRUE, did |-> header.parts[1].v, sig |-> header.parts[2].v,
        ts |-> header.parts[3].v]
  ELSE [ok |-> FALSE, did |-> "", sig |-> EmptyB64, ts |-> ""]

VerifyOptionsOf(method, url, body, didDocument) ==
  [method |-> method, url |-> url, body |-> body, didDocument |-> didDocument]

ClientResult(verified, did, timestamp, error) ==
  [verified |-> verified, did |-> did, timestamp |-> timestamp, error |-> error]
ClientFailed(error) == ClientResult(FALSE, "", "", error)

\* variant: a cache that never has the document
CachedDocument_Miss(c, did) == NoDoc
\* this.cache.get(did); NoDoc for undefined
CachedDocument(c, did) == IF did \in DOMAIN c THEN c[did] ELSE NoDoc

\* Verifier.verify: options.didDocument (NoDoc when left out), else the
\* cached document, else the document resolved now, which is then cached
ClientVerify(authHeader, options, c, outcome) ==
  LET parsed == ClientParseAuthHeader(authHeader)
      given == options.didDocument # NoDoc
      fromCache == CachedDocument(c, parsed.did)
      cached == ~given /\ fromCache # NoDoc
      resolves == parsed.ok /\ ~given /\ ~cached
      didDoc == IF given THEN options.didDocument
                ELSE IF cached THEN fromCache ELSE outcome.doc
      stored == IF resolves /\ ~outcome.threw
                THEN [d \in DOMAIN c \cup {parsed.did} |->
                        IF d = parsed.did THEN outcome.doc ELSE c[d]]
                ELSE c
      canonical == canonicalize(ClientMessage(options.method, options.url, parsed.ts,
                                              options.body))
      valid == verifySecp256k1Signature(didDoc.verificationMethod[1].publicKeyJwk,
                                        canonical, parsed.sig)
  IN  IF ~parsed.ok
      THEN [threw |-> FALSE, resolved |-> FALSE, cache |-> c,
            result |-> ClientFailed("Invalid authorization header format")]
      ELSE IF resolves /\ outcome.threw
      THEN [threw |-> TRUE, resolved |-> TRUE, cache |-> c, result |-> ClientFailed("")]
      ELSE IF didDoc.verificationMethod = << >>
      THEN [threw |-> FALSE, resolved |-> resolves, cache |-> stored,
            result |-> ClientFailed("Public key not found in DID document")]
      ELSE IF valid.threw
      THEN [threw |-> TRUE, resolved |-> resolves, cache |-> stored, result |-> ClientFailed("")]
      ELSE IF valid.ok
      THEN [threw |-> FALSE, resolved |-> resolves, cache |-> stored,
            result |-> ClientResult(TRUE, parsed.did, parsed.ts, "")]
      ELSE [threw |-> FALSE, resolved |-> resolves, cache |-> stored,
            result |-> ClientFailed("Signature verification failed")]

---------------------------------------------------------------------------
(* SpecClient: the client Authenticator issues headers, the client         *)
(* Verifier checks them against the request they were issued for           *)

MaxClientHeaders == 2    \* headers the client Authenticator returns

ClientUrl == "/api/orders"
ClientBodies == { JObj(<< Mem("id", JStr("order-1")) >>), JUndefined }

\* the signer's document, a document listing another key, a document
\* without verification methods
SignerDoc == Doc(ClientDid, <<Vm(<<ClientDid, "key-0">>, "EcdsaSecp256k1VerificationKey2019", Jwk("K1"))>>)
RotatedDoc == Doc(ClientDid, <<Vm(<<ClientDid, "key-0">>, "EcdsaSecp256k1VerificationKey2019", Jwk("K2"))>>)
ClientOutcomes ==
  { [threw |-> TRUE, doc |-> NoDoc] }
    \cup { [threw |-> FALSE, doc |-> d] : d \in {SignerDoc, RotatedDoc, Doc(ClientDid, << >>)} }

CreateAuthHeader ==
  /\ Len(issued) < MaxClientHeaders
  /\ \E method \in {"POST"} : \E body \in ClientBodies :
       LET s == createAuthHeader(method, ClientUrl, body, now, cache)
       IN  /\ cache' = s.cache
           /\ issued' = Append(issued, [method |-> method, url |-> ClientUrl, body |-> body,
                                        header |-> s.header, at |-> now, fresh |-> s.fresh])
  /\ UNCHANGED <<now, storeOn, nonceStore, runs, uuids, call, cart, payment, signers,
                 didCache, requests, admitted>>

NoVerification == [op |-> "none"]
\* what is kept of the verification before the last one
Earlier(c) ==
  IF c.op = "verify"
  THEN [op |-> "verify", header |-> c.header, options |-> c.options, at |-> c.at,
        threw |-> c.out.threw, result |-> c.out.result]
  ELSE NoVerification

\* the server verifies the header issued last against the request it
\* arrived with; two verifications in a row are observed
VerifyHeader ==
  /\ IF call = NoCall THEN TRUE ELSE call.prev = NoVerification
  /\ \E i \in {Len(issued)} \ {0} : \E didDocument \in {NoDoc, SignerDoc} :
       \E outcome \in ClientOutcomes :
         LET options == VerifyOptionsOf(issued[i].method, issued[i].url, issued[i].body,
                                        didDocument)
             v == ClientVerify(issued[i].header, options, didCache, outcome)
         IN  /\ didCache' = v.cache
             /\ call' = [op |-> "verify", header |-> issued[i].header, options |-> options,
                         at |-> now, wasCached |-> ClientDid \in DOMAIN didCache, out |-> v,
                         prev |-> Earlier(call)]
  /\ UNCHANGED <<now, storeOn, nonceStore, runs, cache, uuids, cart, payment, signers, issued,
                 requests, admitted>>

NextClient ==
  \/ Tick
  \/ CreateAuthHeader
  \/ VerifyHeader

SpecClient == Init /\ [][NextClient]_vars

\* C27: every header the client Authenticator returned, one served from its
\* cache included, verifies against the method, url and body of the call
\* that returned it and the signer's DID document.
C27_HeaderSignsOwnRequest ==
  \A i \in 1..Len(issued) :
    LET c == issued[i]
        v == ClientVerify(c.header, VerifyOptionsOf(c.method, c.url, c.body, SignerDoc),
                          << >>, [threw |-> TRUE, doc |-> NoDoc])
    IN  ~v.threw /\ v.result.verified

\* C28: a header that verified once verifies again, with the same result, on
\* a later call with the same request data, whatever the time that has passed
\* since its ts and since the earlier call; and once a document was resolved
\* for the DID, later verifications use the cached document and resolve nothing.
C28_VerifyIgnoresTimeAndHistory ==
  call.op = "verify" =>
    /\ ( /\ call.prev.op = "verify" /\ ~call.prev.threw /\ call.prev.result.verified
         /\ call.header = call.prev.header /\ call.options = call.prev.options )
         => (~call.out.threw /\ call.out.result = call.prev.result)
    /\ (call.wasCached /\ call.options.didDocument = NoDoc) =>
         ( /\ ~call.out.resolved
           /\ call.out.cache = didCache
           /\ call.out.result =
                ClientVerify(call.header,
                             [call.options EXCEPT !.didDocument = didCache[ClientDid]],
                             << >>, [threw |-> TRUE, doc |-> NoDoc]).result )

\* a header verified again two skew windows after its ts, from the cache
C28_Witness ==
  /\ call.op = "verify" /\ call.prev.op = "verify"
  /\ call.prev.result.verified /\ call.out.result.verified
  /\ call.header = call.prev.header /\ call.options = call.prev.options
  /\ call.options.didDocument = NoDoc /\ call.wasCached /\ ~call.out.resolved
  /\ call.at >= call.prev.at + 2 * TIMESTAMP_MAX_SKEW_MS
  /\ call.out.result.timestamp = toISOString(call.prev.at)

---------------------------------------------------------------------------
(* server/handler.ts: handleJSONRPC.  A request is what JSON.parse gave:   *)
(* null, or an object whose members jsonrpc, id, method, params may be     *)
(* missing (JUndefined, "" for the strings).                               *)

INVALID_REQUEST == -32600
METHOD_NOT_FOUND == -32601
INVALID_PARAMS == -32602
INTERNAL_ERROR == -32603

NoSchema == ZAtom("none")

Capability(params, returns) == [params |-> params, returns |-> returns]

\* the registered capabilities: one with both schemas, one with none
Registry ==
  [m \in {"orders.get", "ping"} |->
     IF m = "orders.get"
     THEN Capability(ZObject(<<Required("id", ZAtom("str"))>>),
                     ZObject(<<Required("value", ZAtom("str"))>>))
     ELSE Capability(NoSchema, NoSchema)]

RpcRequest(jsonrpc, id, method, params) ==
  [kind |-> "object", jsonrpc |-> jsonrpc, id |-> id, method |-> method, params |-> params]
NullRequest == [kind |-> "null", jsonrpc |-> "", id |-> JUndefined, method |-> "",
                params |-> JUndefined]

NoRpcError == [code |-> 0, message |-> ""]
\* the response object: members lists the keys it has besides jsonrpc and id
RpcResponse(id, members, result, error) ==
  [jsonrpc |-> "2.0", id |-> id, members |-> members, result |-> result, error |-> error]

createErrorResponse(id, code, message) ==
  RpcResponse(id, {"error"}, JUndefined, [code |-> code, message |-> message])

Returned29(response, invoked) == [threw |-> FALSE, response |-> response, invoked |-> invoked]

\* handleJSONRPC; outcome is what the handler does when it is invoked.  On
\* null, request.jsonrpc throws inside the try and request.id throws again
\* inside the catch
handleJSONRPC(request, outcome) ==
  IF request.kind = "null"
  THEN [threw |-> TRUE, response |-> RpcResponse(JUndefined, {}, JUndefined, NoRpcError),
        invoked |-> FALSE]
  ELSE IF request.jsonrpc # "2.0"
  THEN Returned29(createErrorResponse(request.id, INVALID_REQUEST, "Invalid JSON-RPC version"),
                  FALSE)
  ELSE IF request.method \notin DOMAIN Registry
  THEN Returned29(createErrorResponse(request.id, METHOD_NOT_FOUND,
                                      "Method not found: " \o request.method), FALSE)
  ELSE
    LET capability == Registry[request.method]
        params == IF capability.params # NoSchema
                  THEN ZodParse(capability.params, request.params)
                  ELSE [ok |-> TRUE, v |-> request.params]
        checked == IF capability.returns # NoSchema
                   THEN ZodParse(capability.returns, outcome.value)
                   ELSE [ok |-> TRUE, v |-> outcome.value]
    IN  IF ~params.ok
        THEN Returned29(createErrorResponse(request.id, INVALID_PARAMS, "Invalid parameters"),
                        FALSE)
        ELSE IF outcome.threw
        THEN Returned29(createErrorResponse(request.id, INTERNAL_ERROR, outcome.message), TRUE)
        ELSE IF ~checked.ok
        THEN Returned29(createErrorResponse(request.id, INTERNAL_ERROR,
                                            "Result validation failed"), TRUE)
        ELSE Returned29(RpcResponse(request.id, {"result"}, outcome.value, NoRpcError), TRUE)

RpcIds == {JUndefined, JNull, JNum("1"), JStr("a")}
RpcParams == {JUndefined, JObj(<< Mem("id", JStr("order-1")) >>), JObj(<< Mem("id", JNum("1")) >>)}
RpcRequests ==
  {NullRequest}
    \cup { RpcRequest(v, id, method, params) :
             v \in {"2.0", "1.0", ""}, id \in RpcIds,
             method \in {"orders.get", "ping", "orders.drop"}, params \in RpcParams }

\* what the handler does: it throws, or returns a value
HandlerOutcomes ==
  { [threw |-> TRUE, value |-> JUndefined, message |-> "out of stock"] }
    \cup { [threw |-> FALSE, value |-> v, message |-> ""] :
             v \in {JObj(<< Mem("value", JStr("ok")) >>), JObj(<< Mem("label", JStr("ok")) >>),
                    JUndefined} }

HandleJSONRPC ==
  /\ call = NoCall
  /\ \E request \in RpcRequests : \E outcome \in HandlerOutcomes :
       LET out == handleJSONRPC(request, outcome)
       IN  call' = [op |-> "handleJSONRPC", request |-> request,
                    outcome |-> IF out.invoked THEN outcome ELSE [threw |-> FALSE, value |-> JUndefined, message |-> ""],
                    out |-> out]
  /\ UNCHANGED <<now, storeOn, nonceStore, runs, cache, uuids, cart, payment, signers, issued,
                 didCache, requests, admitted>>

NextRpc == HandleJSONRPC

SpecRpc == Init /\ [][NextRpc]_vars

\* the params pass the schema of the capability, if it has one
ParamsAccepted(request) ==
  LET capability == Registry[request.method]
  IN  capability.params = NoSchema \/ ZodParse(capability.params, request.params).ok
ResultAccepted(request, value) ==
  LET capability == Registry[request.method]
  IN  capability.returns = NoSchema \/ ZodParse(capability.returns, value).ok

\* the code the response must carry, 0 for a result
ExpectedCode(request, outcome) ==
  IF request.jsonrpc # "2.0" THEN INVALID_REQUEST
  ELSE IF request.method \notin DOMAIN Registry THEN METHOD_NOT_FOUND
  ELSE IF ~ParamsAccepted(request) THEN INVALID_PARAMS
  ELSE IF outcome.threw \/ ~ResultAccepted(request, outcome.value) THEN INTERNAL_ERROR
  ELSE 0

\* C29: handleJSONRPC never throws; its response has jsonrpc "2.0", the id of
\* the request and exactly one of result and error, the error code being
\* -32600, -32601, -32602 (handler not invoked) or -32603 as the case is.
C29_AlwaysOneResponse ==
  call.op = "handleJSONRPC" =>
    /\ ~call.out.threw
    /\ call.out.response.jsonrpc = "2.0"
    /\ call.out.response.id = call.request.id
    /\ Cardinality(call.out.response.members) = 1
    /\ LET code == ExpectedCode(call.request, call.outcome)
       IN  IF code = 0 THEN call.out.response.members = {"result"}
           ELSE /\ call.out.response.members = {"error"}
                /\ call.out.response.error.code = code
                /\ code \in {INVALID_REQUEST, METHOD_NOT_FOUND, INVALID_PARAMS}
                     => ~call.out.invoked

----------------------------------------------------------------------------
(* server/session.ts: middleware.rateLimit, one limiter per configuration *)

RateRequests == 2          \* config.requests
RateWindowMs == 1000       \* config.windowMs
MaxAdmitted == 5           \* requests observed through one limiter

RateInstants == {0, 1, RateWindowMs - 1, RateWindowMs, RateWindowMs + 1}

\* ctx.did is optional
NoDid == "undefined"
RateDids == {"did:wba:a", NoDid}

\* const key = ctx.did || "anonymous"
RateKey(did) == IF did = NoDid THEN "anonymous" ELSE did

\* requests.get(key) || []
RateGet(map, key) == IF key \in DOMAIN map THEN map[key] ELSE << >>

\* requests.set(key, timestamps)
RateSet(map, key, timestamps) ==
  [k \in DOMAIN map \cup {key} |-> IF k = key THEN timestamps ELSE map[k]]

\* the filter with the comparison turned, which keeps the stamp made exactly
\* windowMs ago
Recent_Inclusive(timestamps, windowStart) ==
  LET Keep(ts) == ts >= windowStart
  IN  SelectSeq(timestamps, Keep)

\* timestamps.filter((ts) => ts > windowStart)
Recent(timestamps, windowStart) ==
  LET Keep(ts) == ts > windowStart
  IN  SelectSeq(timestamps, Keep)

\* one call of the middleware: the map afterwards, and whether next() ran;
\* there is no await between the get and the set
rateLimit(map, did, t) ==
  LET key         == RateKey(did)
      windowStart == t - RateWindowMs
      timestamps  == Recent(RateGet(map, key), windowStart)
  IN  IF Len(timestamps) >= RateRequests
        THEN [map |-> map, passed |-> FALSE, error |-> "Rate limit exceeded"]
        ELSE [map |-> RateSet(map, key, Append(timestamps, t)), passed |-> TRUE,
              error |-> ""]

RateElapse ==
  /\ \E t \in RateInstants : t > now /\ now' = t
  /\ UNCHANGED <<storeOn, nonceStore, runs, cache, uuids, call, cart, payment, signers, issued,
                 didCache, requests, admitted>>

RateLimit ==
  /\ Len(admitted) < MaxAdmitted
  /\ \E did \in RateDids :
       LET r == rateLimit(requests, did, now)
       IN  /\ requests' = r.map
           /\ admitted' = Append(admitted, [did |-> did, at |-> now, passed |-> r.passed,
                                            error |-> r.error])
  /\ UNCHANGED <<now, storeOn, nonceStore, runs, cache, uuids, call, cart, payment, signers,
                 issued, didCache>>

NextRate == RateElapse \/ RateLimit

SpecRate == Init /\ [][NextRate]_vars

\* the requests among the first n that were let through for the key of did
\* and made later than lo and not later than hi
LetThrough(n, did, lo, hi) ==
  { j \in 1..n : /\ admitted[j].did = did
                 /\ admitted[j].passed
                 /\ admitted[j].at > lo
                 /\ admitted[j].at <= hi }

\* the windows that end at an instant of the clock and those that begin just
\* before one: a window holding the most requests can be moved to one of them
WindowStarts ==
  { t - RateWindowMs : t \in RateInstants } \cup { t - 1 : t \in RateInstants }

\* C30: for each key (ctx.did, or "anonymous" when it is absent) at most
\* RateRequests requests are let through within any window of RateWindowMs
\* milliseconds of the clock (later than lo, not later than lo + RateWindowMs);
\* a request is rejected, with "Rate limit exceeded", exactly
\* when RateRequests requests of its key were let through during the
\* RateWindowMs milliseconds before it, so that neither the rejected requests
\* nor the requests of the other keys are counted.
C30_AtMostNPerWindow ==
  /\ \A did \in RateDids : \A lo \in WindowStarts :
       Cardinality(LetThrough(Len(admitted), did, lo, lo + RateWindowMs)) <= RateRequests
  /\ \A i \in 1..Len(admitted) :
       LET e      == admitted[i]
           before == LetThrough(i - 1, e.did, e.at - RateWindowMs, e.at)
       IN  /\ e.passed <=> Cardinality(before) < RateRequests
           /\ ~e.passed => e.error = "Rate limit exceeded" /\ Cardinality(before) = RateRequests
           /\ RateGet(requests, RateKey(e.did)) # << >> =>
                \A k \in 1..Len(requests[RateKey(e.did)]) :
                  \E j \in 1..Len(admitted) :
                    /\ admitted[j].did = e.did
                    /\ admitted[j].passed
                    /\ admitted[j].at = requests[RateKey(e.did)][k]

\* a request is let through although a request of its key was rejected less
\* than RateWindowMs milliseconds before it, and a request of the other key
\* was let through in between
C30_Witness ==
  \E i, k, j \in 1..Len(admitted) :
    /\ i < k /\ k < j
    /\ admitted[i].did = admitted[j].did
    /\ admitted[k].did # admitted[j].did
    /\ ~admitted[i].passed
    /\ admitted[k].passed
    /\ admitted[j].passed
    /\ admitted[j].at - admitted[i].at < RateWindowMs

====
